---- MODULE Spec2Model ----
(***************************************************************************)
(* Deposit ledger of the wallet backend: handleDeposit (webhookHandler),   *)
(* run as concurrent pg-promise transactions against the PostgreSQL store. *)
(* One action per SQL statement together with the JavaScript that runs     *)
(* after its result arrives, up to the next await.                         *)
(*                                                                         *)
(* The store is PostgreSQL at its default isolation, READ COMMITTED, as    *)
(* db.tx opens it: a statement sees the rows committed before it and the   *)
(* rows of its own transaction; the rows a transaction writes are kept in  *)
(* its call record (wAudit, wDep, wBal) until COMMIT moves them into the   *)
(* tables, and are dropped by ROLLBACK.  A unique index makes an insert    *)
(* wait for an open transaction that holds the same key.                   *)
(*                                                                         *)
(* The webhook front door (router.post('/bitgo')) answers a request and    *)
(* queues handleDeposit with process.nextTick; request r is served by call *)
(* r.  Address provisioning (generateUserAddresses) sends one request to   *)
(* the provider per configured wallet and stores the answers in one        *)
(* transaction of the same store.                                          *)
(*                                                                         *)
(* Amounts are exact decimals.  The doubles of the program agree with them *)
(* for the values used in the ledger runs: a quotient k / 10^n with fewer  *)
(* than 16 significant digits is written back by the driver as the same    *)
(* decimal.  Raw values of more digits are converted with toDouble.        *)
(*                                                                         *)
(* Registration (UserRegister) inserts the user in a transaction of its    *)
(* own and calls generateUserAddresses without waiting for it.             *)
(***************************************************************************)
EXTENDS Integers, Sequences, FiniteSets, TLC

VARIABLES
    user_addresses,   \* table user_addresses: rows [user_id, crypto, address]
    deposits,         \* table deposits, committed rows
    user_balances,    \* table user_balances, committed: <<user_id, crypto>> -> balance
    bitgo_wallet,     \* table bitgo_wallet (raw payload audit rows), committed
    nextId,           \* sequence behind bitgo_wallet.bitgo_wallet_id
    call,             \* one record per handleDeposit invocation
    request,          \* one record per POST /webhook/bitgo request
    env,              \* process.env as bitgoService read it when it was loaded
    run,              \* one record per generateUserAddresses invocation
    users,            \* table users, committed rows [id, email, phone_number]
    registration      \* one record per POST request served by UserRegister

vars == <<user_addresses, deposits, user_balances, bitgo_wallet, nextId, call,
          request, env, run, users, registration>>

\* the state of registration
registering == <<users, registration>>

\* the state of address provisioning
provisioning == <<env, run>>

tables == <<user_addresses, deposits, user_balances, bitgo_wallet>>

----------------------------------------------------------------------------
(* Bounds of the model *)

\* number of handleDeposit invocations that may be in flight together
MaxCalls == 2

Calls == 1..MaxCalls

\* number of generateUserAddresses invocations that may be in flight together
MaxRuns == 2

Runs == 1..MaxRuns

----------------------------------------------------------------------------
(* Decimal numbers: <<n, d>> with d > 0 in lowest terms; NaN is <<0, 0>> *)

NaN == <<0, 0>>

isNaN(x) == x[2] = 0

Abs(n) == IF n < 0 THEN -n ELSE n

RECURSIVE Gcd(_, _)
Gcd(a, b) == IF b = 0 THEN a ELSE Gcd(b, a % b)

Norm(n, d) ==
    LET g == Gcd(Abs(n), d) IN <<n \div g, d \div g>>

\* x / k for a positive integer k
DivBy(x, k) ==
    IF isNaN(x) THEN NaN
    ELSE LET g == Gcd(Abs(x[1]), k)
         IN  IF x[1] = 0 THEN <<0, 1>> ELSE <<x[1] \div g, x[2] * (k \div g)>>

\* x + y
Plus(x, y) ==
    LET g == Gcd(x[2], y[2])
        l == (x[2] \div g) * y[2]
    IN  Norm(x[1] * (l \div x[2]) + y[1] * (l \div y[2]), l)

\* x * k for an integer k
Times(x, k) == Norm(x[1] * k, x[2])

LeqZero(x) == x[1] <= 0

----------------------------------------------------------------------------
(* parseFloat: the longest prefix that is a decimal literal, after leading *)
(* blanks; NaN when there is none                                          *)

Digits == {"0", "1", "2", "3", "4", "5", "6", "7", "8", "9"}

DigitVal(c) ==
    CASE c = "0" -> 0 [] c = "1" -> 1 [] c = "2" -> 2 [] c = "3" -> 3
      [] c = "4" -> 4 [] c = "5" -> 5 [] c = "6" -> 6 [] c = "7" -> 7
      [] c = "8" -> 8 [] c = "9" -> 9

RECURSIVE Pow10(_)
Pow10(k) == IF k = 0 THEN 1 ELSE 10 * Pow10(k - 1)

\* number of leading characters of s, from position i, that are in set S
RECURSIVE Run(_, _, _)
Run(s, i, S) == IF i <= Len(s) /\ s[i] \in S THEN 1 + Run(s, i + 1, S) ELSE 0

\* value of the digits s[i .. i+k-1]
RECURSIVE DigitsVal(_, _, _)
DigitsVal(s, i, k) ==
    IF k = 0 THEN 0 ELSE DigitsVal(s, i, k - 1) * 10 + DigitVal(s[i + k - 1])

parseFloat(s) ==
    LET ws    == Run(s, 1, {" "})
        i0    == 1 + ws
        neg   == i0 <= Len(s) /\ s[i0] = "-"
        sgn   == IF i0 <= Len(s) /\ s[i0] \in {"-", "+"} THEN 1 ELSE 0
        i1    == i0 + sgn
        nInt  == Run(s, i1, Digits)
        i2    == i1 + nInt
        dot   == i2 <= Len(s) /\ s[i2] = "."
        nFrac == IF dot THEN Run(s, i2 + 1, Digits) ELSE 0
        i3    == IF dot /\ (nInt > 0 \/ nFrac > 0) THEN i2 + 1 + nFrac ELSE i2
        hasE  == i3 <= Len(s) /\ s[i3] \in {"e", "E"}
        eSgn  == IF hasE /\ i3 + 1 <= Len(s) /\ s[i3 + 1] \in {"-", "+"} THEN 1 ELSE 0
        eNeg  == eSgn = 1 /\ s[i3 + 1] = "-"
        nExp  == IF hasE THEN Run(s, i3 + 1 + eSgn, Digits) ELSE 0
        exp   == DigitsVal(s, i3 + 1 + eSgn, nExp)
        mant  == DigitsVal(s, i1, nInt) * Pow10(nFrac) + DigitsVal(s, i2 + 1, nFrac)
        num   == IF neg THEN -mant ELSE mant
    IN  IF nInt = 0 /\ nFrac = 0 THEN NaN
        ELSE IF nExp > 0 /\ ~eNeg THEN Norm(num * Pow10(exp), Pow10(nFrac))
        ELSE IF nExp > 0 THEN Norm(num, Pow10(nFrac + exp))
        ELSE Norm(num, Pow10(nFrac))

----------------------------------------------------------------------------
(* The registry tables; a lookup obj[key] of a JavaScript object literal   *)
(* also finds the members the object inherits from Object.prototype        *)

Undefined == "undefined"

\* null, as the catch of a provider request returns it
Null == "null"

\* a provider request that has not settled
Pending == "pending request"

Inherited == "[Object.prototype member]"

ObjectPrototypeKeys ==
    {"constructor", "toString", "valueOf", "hasOwnProperty", "__proto__"}

Lookup(obj, key) ==
    IF key \in DOMAIN obj THEN obj[key]
    ELSE IF key \in ObjectPrototypeKeys THEN Inherited
    ELSE Undefined

Truthy(v) == v # Undefined

COIN_MAPPINGS ==
    [c \in {"tbtc4", "tsol", "tada", "tdoge"} |->
        CASE c = "tbtc4" -> "TBTC4" [] c = "tsol" -> "TSOL"
          [] c = "tada" -> "TADA" [] c = "tdoge" -> "TDOGE"]

VALUE_DIVISORS ==
    [s \in {"TBTC4", "TSOL", "TADA", "TDOGE"} |->
        CASE s = "TBTC4" -> 100000000 [] s = "TSOL" -> 1000000000
          [] s = "TADA" -> 1000000 [] s = "TDOGE" -> 100000000]

DEPOSIT_STATES ==
    [s \in {"pending", "confirmed", "failed", "unconfirmed"} |->
        CASE s = "pending" -> "pending" [] s = "confirmed" -> "completed"
          [] s = "failed" -> "failed" [] s = "unconfirmed" -> "pending"]

dbCoinSymbol(coin) == Lookup(COIN_MAPPINGS, coin)

\* parseFloat(valueString) / VALUE_DIVISORS[dbCoinSymbol]; a division by
\* undefined gives NaN
amountOf(valueString, sym) ==
    IF sym \in DOMAIN VALUE_DIVISORS
    THEN DivBy(parseFloat(valueString), VALUE_DIVISORS[sym])
    ELSE NaN

\* invalidAmount without the test amount <= 0
invalidAmount_NaNOnly(a) == isNaN(a)

invalidAmount(a) == isNaN(a) \/ LeqZero(a)

\* DEPOSIT_STATES[state] || 'pending'
depositStatusOf(state) ==
    LET v == Lookup(DEPOSIT_STATES, state) IN IF Truthy(v) THEN v ELSE "pending"

----------------------------------------------------------------------------
(* Webhook payloads.  valueString is a sequence of characters.             *)

vs5        == <<"5">>
vs150M     == <<"1", "5", "0", "0", "0", "0", "0", "0", "0">>
vsZero     == <<"0">>
vsNeg      == <<"-", "5">>
vsAbc      == <<"a", "b", "c">>
vs12abc    == <<"1", "2", "a", "b", "c">>
vsFrac     == <<"1", ".", "5">>
vsExp      == <<"1", "e", "3">>

\* transaction hashes, one per delivery that may be in flight
HashNames == <<"0xabc", "0xdef", "0x123", "0x456">>

Hashes == {HashNames[i] : i \in 1..MaxCalls}

\* the events of the concurrent ledger runs
LedgerEvents ==
    [hash : Hashes, coin : {"tbtc4"}, state : {"confirmed", "pending"},
     receiver : {"addr1", "addr2"}, valueString : {vs150M}]

\* the events of the single wide call
AllEvents ==
    [hash : Hashes,
     coin : {"tbtc4", "tsol", "xyz", "constructor"},
     state : {"confirmed", "failed", "pending", "unconfirmed", "bogus", "constructor"},
     receiver : {"addr1", "addr3", "nobody"},
     valueString : {vs5, vs150M, vsZero, vsNeg, vsAbc, vs12abc, vsFrac, vsExp}]

NoEvent == [hash |-> "", coin |-> "", state |-> "", receiver |-> "", valueString |-> <<>>]

\* the fields the front door requires of req.body, besides type
Fields == {"hash", "coin", "state", "receiver", "valueString"}

\* req.body: its type, the required fields it has, and their values
NoBody == [type |-> Undefined, present |-> {}, ev |-> NoEvent]

SampleEvent ==
    [hash |-> HashNames[1], coin |-> "tbtc4", state |-> "confirmed",
     receiver |-> "addr1", valueString |-> vs150M]

\* the events of the requests the front door accepts
\* the events of the requests the front door accepts: a deposit to a tracked
\* address, and the same with an unknown coin, an untracked receiver or a
\* value that is no number
FrontDoorEvents ==
    UNION {{[SampleEvent EXCEPT !.hash = h],
            [SampleEvent EXCEPT !.hash = h, !.coin = "xyz"],
            [SampleEvent EXCEPT !.hash = h, !.receiver = "nobody"],
            [SampleEvent EXCEPT !.hash = h, !.valueString = vsAbc]} : h \in Hashes}

AcceptedBodies ==
    {[type |-> "transfer", present |-> Fields, ev |-> e] : e \in FrontDoorEvents}

\* the empty string in field f
EmptyField(f) == IF f = "valueString" THEN <<>> ELSE ""

\* bodies of another type or of none, bodies without one of the fields, bodies
\* with an empty string in one of them
OtherBodies ==
    {[type |-> t, present |-> Fields, ev |-> SampleEvent] : t \in {"other", Undefined}}
    \cup {[type |-> "transfer", present |-> Fields \ {f}, ev |-> SampleEvent] :
             f \in Fields}
    \cup {[type |-> "transfer", present |-> Fields,
           ev |-> [SampleEvent EXCEPT ![f] = EmptyField(f)]] : f \in Fields}

Bodies == AcceptedBodies \cup OtherBodies

----------------------------------------------------------------------------
(* The store *)

\* table currencies: one row per registry symbol
currencies == {"TBTC4", "TSOL", "TADA", "TDOGE"}

\* the values the status column of deposits holds
DepositStatusValues == {"pending", "completed", "failed"}

\* rows of user_addresses as address provisioning left them
ProvisionedAddresses ==
    {[user_id |-> 1, crypto |-> "TBTC4", address |-> "addr1"],
     [user_id |-> 2, crypto |-> "TBTC4", address |-> "addr2"],
     [user_id |-> 1, crypto |-> "TSOL",  address |-> "addr3"]}

\* a request that has not arrived: no response sent (status 0), no task queued
NoRequest ==
    [pc |-> "none", body |-> NoBody, status |-> 0, invoked |-> 0, log |-> ""]

\* process.env with the access token and the wallets of two of the four coins
ConfiguredEnv ==
    [BITGO_ACCESS_TOKEN |-> "token",
     BTC_COIN  |-> "tbtc4", BTC_WALLET_ID  |-> "wallet-btc",
     ADA_COIN  |-> "tada",  ADA_WALLET_ID  |-> Undefined,
     SOL_COIN  |-> "tsol",  SOL_WALLET_ID  |-> "wallet-sol",
     DOGE_COIN |-> "tdoge", DOGE_WALLET_ID |-> ""]

\* process.env without a wallet id for any coin
NoWalletEnv ==
    [ConfiguredEnv EXCEPT !.BTC_WALLET_ID = Undefined, !.SOL_WALLET_ID = ""]

\* process.env without the access token
NoTokenEnv == [ConfiguredEnv EXCEPT !.BITGO_ACCESS_TOKEN = Undefined]

Environments == {ConfiguredEnv, NoWalletEnv, NoTokenEnv}

\* a generateUserAddresses invocation that has not started; issued counts the
\* requests sent to the provider for each entry of wallets
IdleRun ==
    [pc |-> "idle", userId |-> 0, tasks |-> <<>>, successfulAddresses |-> <<>>,
     i |-> 0, wAddr |-> {}, wAudit |-> {}, err |-> "none", fresh |-> FALSE,
     overlapped |-> FALSE, issued |-> <<0, 0, 0, 0>>]

\* rows of users: the owners of the provisioned addresses
ExistingUsers ==
    {[id |-> 1, email |-> "a@x.io", phone_number |-> "+1"],
     [id |-> 2, email |-> "b@x.io", phone_number |-> "+2"]}

\* newUser.id of a value that has no id: undefined, NULL in the store
NoId == 0

\* a registration request that has not arrived: no response sent (status 0),
\* no row written, generateUserAddresses not called
NoRegistration ==
    [pc |-> "none", body |-> <<>>, status |-> 0, newUser |-> NoId, w |-> {},
     provisioned |-> 0, err |-> "none"]

IdleCall ==
    [pc |-> "idle", ev |-> NoEvent, sym |-> Undefined, user_id |-> 0,
     bitgo_wallet_id |-> 0, amount |-> NaN, status |-> "",
     wAudit |-> {}, wDep |-> {}, wBal |-> {},
     ret |-> FALSE, err |-> "none", queried |-> FALSE, dup |-> FALSE,
     racing |-> FALSE]

Init ==
    /\ user_addresses = ProvisionedAddresses
    /\ deposits = {}
    /\ user_balances = <<>>
    /\ bitgo_wallet = {}
    /\ nextId = 1
    /\ call = [p \in Calls |-> IdleCall]
    /\ request = [r \in Calls |-> NoRequest]
    /\ env = ConfiguredEnv
    /\ run = [n \in Runs |-> IdleRun]
    /\ users = ExistingUsers
    /\ registration = [r \in Runs |-> NoRegistration]

\* the state after construction in one of the environments
InitProvision ==
    /\ user_addresses = ProvisionedAddresses
    /\ deposits = {}
    /\ user_balances = <<>>
    /\ bitgo_wallet = {}
    /\ nextId = 1
    /\ call = [p \in Calls |-> IdleCall]
    /\ request = [r \in Calls |-> NoRequest]
    /\ env \in Environments
    /\ run = [n \in Runs |-> IdleRun]
    /\ users = ExistingUsers
    /\ registration = [r \in Runs |-> NoRegistration]

InFlight(p) == call[p].pc \notin {"idle", "done"}

\* the callback returned r: db.tx sends COMMIT and resolves with r
Return(p, r) == call' = [call EXCEPT ![p].pc = "commit", ![p].ret = r]

\* CatchBlock without the ROLLBACK: the rows written before the failure are
\* committed
CatchBlock_Commits(p, why) ==
    call' = [call EXCEPT ![p].pc = "commit", ![p].ret = FALSE, ![p].err = why]

\* CatchBlock with a ROLLBACK that leaves the deposit row of the call behind
CatchBlock_KeepsDeposit(p, why) ==
    call' = [call EXCEPT ![p].pc = "commit", ![p].ret = FALSE, ![p].err = why,
                         ![p].wAudit = {}, ![p].wBal = {}]

\* CatchBlock that throws the error again after the ROLLBACK: the promise of
\* handleDeposit is rejected
CatchBlock_Rethrows(p, why) ==
    call' = [call EXCEPT ![p].pc = "rejected", ![p].ret = FALSE, ![p].err = why,
                         ![p].wAudit = {}, ![p].wDep = {}, ![p].wBal = {}]

\* the callback or a statement threw: db.tx sends ROLLBACK and rejects, and the
\* catch block of handleDeposit returns false
CatchBlock(p, why) ==
    call' = [call EXCEPT ![p].pc = "done", ![p].ret = FALSE, ![p].err = why,
                         ![p].wAudit = {}, ![p].wDep = {}, ![p].wBal = {}]

----------------------------------------------------------------------------
(* handleDeposit *)

\* handleDeposit(webhookData) up to the first query: BEGIN and the coin lookup
Begin(p, e) ==
    /\ call[p].pc = "idle"
    /\ LET sym == dbCoinSymbol(e.coin)
           c   == [call[p] EXCEPT !.ev = e, !.sym = sym,
                       !.dup = \E d \in deposits : d.blockchain_tx_hash = e.hash]
       IN  call' = [call EXCEPT ![p] =
                IF ~Truthy(sym) THEN [c EXCEPT !.pc = "commit", !.ret = FALSE]
                ELSE [c EXCEPT !.pc = "selAddr"]]
    /\ UNCHANGED <<tables, nextId>>

\* SelectAddress with the address matched whatever its currency
SelectAddress_AnyCurrency(p) ==
    /\ call[p].pc = "selAddr"
    /\ LET rows == {r \in user_addresses : r.address = call[p].ev.receiver}
       IN  IF rows = {}
           THEN call' = [call EXCEPT ![p].pc = "commit", ![p].ret = FALSE,
                                     ![p].queried = TRUE]
           ELSE \E userAddress \in rows :
                  call' = [call EXCEPT ![p].pc = "selDep", ![p].queried = TRUE,
                                       ![p].user_id = userAddress.user_id]
    /\ UNCHANGED <<tables, nextId>>

\* 1. the owner of the receiving address, for the resolved currency
SelectAddress(p) ==
    /\ call[p].pc = "selAddr"
    /\ LET rows == {r \in user_addresses :
                      /\ r.address = call[p].ev.receiver
                      /\ r.crypto = call[p].sym
                      /\ r.crypto \in currencies}
       IN  IF rows = {}
           THEN call' = [call EXCEPT ![p].pc = "commit", ![p].ret = FALSE,
                                     ![p].queried = TRUE]
           ELSE \E userAddress \in rows :
                  call' = [call EXCEPT ![p].pc = "selDep", ![p].queried = TRUE,
                                       ![p].user_id = userAddress.user_id]
    /\ UNCHANGED <<tables, nextId>>

\* SelectDeposit with the duplicate reported as a credit (return true)
SelectDeposit_ReturnsTrue(p) ==
    /\ call[p].pc = "selDep"
    /\ LET existingDeposit ==
               \E d \in deposits \cup call[p].wDep :
                   d.blockchain_tx_hash = call[p].ev.hash
       IN  IF existingDeposit
           THEN Return(p, TRUE)
           ELSE call' = [call EXCEPT ![p].pc = "insAudit"]
    /\ UNCHANGED <<tables, nextId>>

\* SelectDeposit that takes a confirmed event for a stored pending deposit as
\* the confirmation of it: the status is set to completed and the amount of the
\* deposit is credited
SelectDeposit_UpgradesPending(p) ==
    /\ call[p].pc = "selDep"
    /\ LET existing == {d \in deposits \cup call[p].wDep :
                          d.blockchain_tx_hash = call[p].ev.hash}
       IN  IF existing = {}
           THEN call' = [call EXCEPT ![p].pc = "insAudit"]
           ELSE IF /\ depositStatusOf(call[p].ev.state) = "completed"
                   /\ \E d \in existing : d.status = "pending"
           THEN LET d == CHOOSE x \in existing : x.status = "pending"
                IN  call' = [call EXCEPT ![p].pc = "upsert", ![p].ret = TRUE,
                                ![p].status = "completed", ![p].amount = d.amount,
                                ![p].user_id = d.user_id, ![p].sym = d.crypto,
                                ![p].wDep = {[d EXCEPT !.status = "completed"]}]
           ELSE Return(p, FALSE)
    /\ UNCHANGED <<tables, nextId>>

\* 2. the existence check on the committed deposits
SelectDeposit(p) ==
    /\ call[p].pc = "selDep"
    /\ LET existingDeposit ==
               \E d \in deposits \cup call[p].wDep :
                   d.blockchain_tx_hash = call[p].ev.hash
       IN  IF existingDeposit
           THEN Return(p, FALSE)
           ELSE call' = [call EXCEPT ![p].pc = "insAudit"]
    /\ UNCHANGED <<tables, nextId>>

\* InsertAudit with the invalid amount thrown instead of returned
InsertAudit_ThrowsOnInvalid(p) ==
    /\ call[p].pc = "insAudit"
    /\ LET row    == [bitgo_wallet_id |-> nextId, event_type |-> "crypto_deposit",
                      payload |-> call[p].ev]
           amount == amountOf(call[p].ev.valueString, call[p].sym)
           c      == [call[p] EXCEPT !.wAudit = {row}, !.bitgo_wallet_id = nextId,
                                     !.amount = amount]
       IN  call' = [call EXCEPT ![p] =
                IF invalidAmount(amount)
                THEN [c EXCEPT !.pc = "done", !.ret = FALSE, !.err = "conversion",
                               !.wAudit = {}]
                ELSE [c EXCEPT !.pc = "insDep",
                               !.status = depositStatusOf(call[p].ev.state)]]
    /\ nextId' = nextId + 1
    /\ UNCHANGED tables

\* InsertAudit with the conversion before the insert: an invalid amount returns
\* before the raw payload row is written
InsertAudit_AfterConversion(p) ==
    /\ call[p].pc = "insAudit"
    /\ LET row    == [bitgo_wallet_id |-> nextId, event_type |-> "crypto_deposit",
                      payload |-> call[p].ev]
           amount == amountOf(call[p].ev.valueString, call[p].sym)
           c      == [call[p] EXCEPT !.amount = amount]
       IN  call' = [call EXCEPT ![p] =
                IF invalidAmount(amount)
                THEN [c EXCEPT !.pc = "commit", !.ret = FALSE]
                ELSE [c EXCEPT !.pc = "insDep", !.wAudit = {row},
                               !.bitgo_wallet_id = nextId,
                               !.status = depositStatusOf(call[p].ev.state)]]
    /\ nextId' = nextId + 1
    /\ UNCHANGED tables

\* 3. the raw payload row, then 4. the conversion and the status of step 5
InsertAudit(p) ==
    /\ call[p].pc = "insAudit"
    /\ LET row    == [bitgo_wallet_id |-> nextId, event_type |-> "crypto_deposit",
                      payload |-> call[p].ev]
           amount == amountOf(call[p].ev.valueString, call[p].sym)
           c      == [call[p] EXCEPT !.wAudit = {row}, !.bitgo_wallet_id = nextId,
                                     !.amount = amount]
       IN  call' = [call EXCEPT ![p] =
                IF invalidAmount(amount)
                THEN [c EXCEPT !.pc = "commit", !.ret = FALSE]
                ELSE [c EXCEPT !.pc = "insDep",
                               !.status = depositStatusOf(call[p].ev.state)]]
    /\ nextId' = nextId + 1
    /\ UNCHANGED tables

\* DepositRow with the id of the user in place of the id of the audit row
DepositRow_UserAsUid(c) ==
    [user_id |-> c.user_id, bitgo_uid |-> c.user_id, crypto |-> c.sym,
     amount |-> c.amount, blockchain_tx_hash |-> c.ev.hash, status |-> c.status]

\* the deposit row of step 5
DepositRow(c) ==
    [user_id |-> c.user_id, bitgo_uid |-> c.bitgo_wallet_id, crypto |-> c.sym,
     amount |-> c.amount, blockchain_tx_hash |-> c.ev.hash, status |-> c.status]

\* whether the status column takes the value: a status of the registry always,
\* any other value in a text column and not in an enumerated one
StatusAccepted(status) ==
    IF status \in DepositStatusValues THEN {TRUE} ELSE BOOLEAN

\* the unique index on deposits.blockchain_tx_hash: an insert of hash h waits
\* while another open transaction holds an uncommitted row of h ...
HashLocked(p, h) ==
    \E q \in Calls \ {p} :
        InFlight(q) /\ \E d \in call[q].wDep : d.blockchain_tx_hash = h

\* ... and fails when a committed row of h exists
HashTaken(h) == \E d \in deposits : d.blockchain_tx_hash = h

\* InsertDeposit with ON CONFLICT (blockchain_tx_hash) DO NOTHING: the duplicate
\* row is skipped without an error and the call goes on to the balance
InsertDeposit_OnConflictDoNothing(p) ==
    /\ call[p].pc = "insDep"
    /\ ~HashLocked(p, call[p].ev.hash)
    /\ LET row    == DepositRow(call[p])
           exists == HashTaken(row.blockchain_tx_hash)
       IN  \E accepted \in StatusAccepted(row.status) :
              IF accepted
              THEN call' = [call EXCEPT ![p].wDep = IF exists THEN {} ELSE {row},
                      ![p].ret = TRUE,
                      ![p].pc = IF row.status = "completed" THEN "upsert" ELSE "commit"]
              ELSE CatchBlock(p, "status")
    /\ UNCHANGED <<tables, nextId>>

\* InsertDeposit without the test of line 88: the balance is written for a
\* deposit of any status
InsertDeposit_AlwaysUpserts(p) ==
    /\ call[p].pc = "insDep"
    /\ ~HashLocked(p, call[p].ev.hash)
    /\ LET row == DepositRow(call[p])
       IN  IF HashTaken(row.blockchain_tx_hash)
           THEN CatchBlock(p, "unique")
           ELSE \E accepted \in StatusAccepted(row.status) :
                  IF accepted
                  THEN call' = [call EXCEPT ![p].wDep = {row}, ![p].ret = TRUE,
                                            ![p].pc = "upsert"]
                  ELSE CatchBlock(p, "status")
    /\ UNCHANGED <<tables, nextId>>

\* 5. the deposit row
InsertDeposit(p) ==
    /\ call[p].pc = "insDep"
    /\ ~HashLocked(p, call[p].ev.hash)
    /\ LET row == DepositRow(call[p])
       IN  IF HashTaken(row.blockchain_tx_hash)
           THEN CatchBlock(p, "unique")
           ELSE \E accepted \in StatusAccepted(row.status) :
                  IF accepted
                  THEN call' = [call EXCEPT ![p].wDep = {row}, ![p].ret = TRUE,
                          ![p].pc = IF row.status = "completed" THEN "upsert" ELSE "commit"]
                  ELSE CatchBlock(p, "status")
    /\ UNCHANGED <<tables, nextId>>

\* UpsertBalance with DO UPDATE SET balance = EXCLUDED.balance: the amount
\* replaces the balance
UpsertBalance_Overwrites(p) ==
    /\ call[p].pc = "upsert"
    /\ LET key == <<call[p].user_id, call[p].sym>>
       IN  /\ ~\E q \in Calls \ {p} : InFlight(q) /\ \E w \in call[q].wBal : w.key = key
           /\ call' = [call EXCEPT
                         ![p].wBal = {[key |-> key, balance |-> call[p].amount]},
                         ![p].pc = "commit", ![p].ret = TRUE,
                         ![p].racing = \E q \in Calls \ {p} : call[q].pc = "upsert"]
    /\ UNCHANGED <<tables, nextId>>

\* UpsertBalance as a read of the balance followed by a write of the sum, with
\* no lock of the row between the two
UpsertBalance_ReadThenWrite(p) ==
    /\ call[p].pc = "upsert"
    /\ LET key == <<call[p].user_id, call[p].sym>>
           new == IF key \in DOMAIN user_balances
                  THEN Plus(user_balances[key], call[p].amount)
                  ELSE call[p].amount
       IN  call' = [call EXCEPT ![p].wBal = {[key |-> key, balance |-> new]},
                                ![p].pc = "commit", ![p].ret = TRUE,
                                ![p].racing = \E q \in Calls \ {p} :
                                                 call[q].pc = "upsert"]
    /\ UNCHANGED <<tables, nextId>>

\* UpsertBalance with a DO UPDATE that leaves out the user: the amount is added
\* to every balance of the currency
UpsertBalance_EveryUser(p) ==
    /\ call[p].pc = "upsert"
    /\ LET key == <<call[p].user_id, call[p].sym>>
       IN  /\ ~\E q \in Calls \ {p} : InFlight(q) /\ \E w \in call[q].wBal : w.key = key
           /\ LET new == IF key \in DOMAIN user_balances
                         THEN Plus(user_balances[key], call[p].amount)
                         ELSE call[p].amount
              IN  call' = [call EXCEPT
                     ![p].wBal = {[key |-> key, balance |-> new]} \cup
                                 {[key |-> k, balance |-> Plus(user_balances[k], call[p].amount)] :
                                    k \in {j \in DOMAIN user_balances :
                                             j[2] = call[p].sym /\ j # key}},
                     ![p].pc = "commit", ![p].ret = TRUE,
                     ![p].racing = \E q \in Calls \ {p} : call[q].pc = "upsert"]
    /\ UNCHANGED <<tables, nextId>>

\* 6. INSERT ... ON CONFLICT (user_id, crypto) DO UPDATE SET balance = balance + amount:
\* takes the lock of the row, or of its key, until the transaction ends
UpsertBalance(p) ==
    /\ call[p].pc = "upsert"
    /\ LET key == <<call[p].user_id, call[p].sym>>
       IN  /\ ~\E q \in Calls \ {p} : InFlight(q) /\ \E w \in call[q].wBal : w.key = key
           /\ LET new == IF key \in DOMAIN user_balances
                         THEN Plus(user_balances[key], call[p].amount)
                         ELSE call[p].amount
              IN  call' = [call EXCEPT ![p].wBal = {[key |-> key, balance |-> new]},
                                       ![p].pc = "commit", ![p].ret = TRUE,
                                       ![p].racing = \E q \in Calls \ {p} :
                                                        call[q].pc = "upsert"]
    /\ UNCHANGED <<tables, nextId>>

\* the balances after the writes ws
ApplyBalances(bal, ws) ==
    [k \in DOMAIN bal \cup {w.key : w \in ws} |->
        IF \E w \in ws : w.key = k THEN (CHOOSE w \in ws : w.key = k).balance
        ELSE bal[k]]

\* COMMIT: the writes of the transaction become visible together
Commit(p) ==
    /\ call[p].pc = "commit"
    /\ bitgo_wallet' = bitgo_wallet \cup call[p].wAudit
    /\ deposits' = deposits \cup call[p].wDep
    /\ user_balances' = ApplyBalances(user_balances, call[p].wBal)
    /\ call' = [call EXCEPT ![p].pc = "done"]
    /\ UNCHANGED <<user_addresses, nextId>>

\* StoreError with db.tx outside the try block: the failure is not caught
StoreError_Uncaught(p) ==
    /\ InFlight(p)
    /\ call' = [call EXCEPT ![p].pc = "rejected", ![p].err = "store",
                            ![p].wAudit = {}, ![p].wDep = {}, ![p].wBal = {}]
    /\ UNCHANGED <<tables, nextId>>

\* a statement fails for a reason of the store (connection lost, timeout)
StoreError(p) ==
    /\ InFlight(p)
    /\ CatchBlock(p, "store")
    /\ UNCHANGED <<tables, nextId>>

Step(p) ==
    \/ SelectAddress(p)
    \/ SelectDeposit(p)
    \/ InsertAudit(p)
    \/ InsertDeposit(p)
    \/ UpsertBalance(p)
    \/ Commit(p)
    \/ StoreError(p)

\* Deliveries are interchangeable, and so are hashes: the next delivery takes
\* the lowest idle call, and a hash seen before or the first one not seen yet
NextCall(p) == call[p].pc = "idle" /\ \A q \in Calls : q < p => call[q].pc # "idle"

SeenHashes == {call[q].ev.hash : q \in {r \in Calls : call[r].pc # "idle"}}

NextHash(h) ==
    \/ h \in SeenHashes
    \/ \E i \in 1..MaxCalls :
          /\ h = HashNames[i]
          /\ \A j \in 1..MaxCalls : HashNames[j] \in SeenHashes <=> j < i

\* concurrent deliveries of ledger events
Next ==
    \E p \in Calls :
        \/ /\ NextCall(p) /\ \E e \in LedgerEvents : NextHash(e.hash) /\ Begin(p, e)
           /\ UNCHANGED <<request, provisioning, registering>>
        \/ Step(p) /\ UNCHANGED <<request, provisioning, registering>>

Spec == Init /\ [][Next]_vars

\* one delivery of any event, after one ledger event has been handled
NextInputs ==
    \/ /\ NextCall(1) /\ \E e \in LedgerEvents : NextHash(e.hash) /\ Begin(1, e)
       /\ UNCHANGED <<request, provisioning, registering>>
    \/ /\ call[1].pc = "done" /\ NextCall(2)
       /\ \E e \in AllEvents : NextHash(e.hash) /\ Begin(2, e)
       /\ UNCHANGED <<request, provisioning, registering>>
    \/ \E p \in {1, 2} : Step(p) /\ UNCHANGED <<request, provisioning, registering>>

SpecInputs == Init /\ [][NextInputs]_vars

----------------------------------------------------------------------------
(* The conversion of large raw values.  parseFloat gives the double that   *)
(* is nearest to the decimal integer: an integer of more than 53 bits      *)
(* loses its low bits.  Integers of up to 18 digits are kept as <<hi, lo>> *)
(* with value hi * 10^9 + lo.  The quotient by the divisor is kept exact:  *)
(* the values below are those of at most 15 digits, which the program      *)
(* stores exactly, and integers that the double cannot hold.               *)

WideBase == Pow10(9)

\* the integer written by the digits s
WideOf(s) ==
    LET nHi == IF Len(s) > 9 THEN Len(s) - 9 ELSE 0
    IN  <<DigitsVal(s, 1, nHi), DigitsVal(s, nHi + 1, Len(s) - nHi)>>

WideLeq(a, b) == a[1] < b[1] \/ (a[1] = b[1] /\ a[2] <= b[2])

\* a + d for an integer d between -10^9 and 10^9
WideAdd(a, d) ==
    LET lo == a[2] + d
    IN  IF lo < 0 THEN <<a[1] - 1, lo + WideBase>>
        ELSE IF lo >= WideBase THEN <<a[1] + 1, lo - WideBase>>
        ELSE <<a[1], lo>>

\* 2^53, the first integer whose successor no double holds, up to 2^59
PowersOfTwo ==
    <<<<9007199, 254740992>>, <<18014398, 509481984>>, <<36028797, 18963968>>,
      <<72057594, 37927936>>, <<144115188, 75855872>>, <<288230376, 151711744>>,
      <<576460752, 303423488>>>>

RECURSIVE Pow2(_)
Pow2(j) == IF j = 0 THEN 1 ELSE 2 * Pow2(j - 1)

\* a modulo a power of two s below 2^15
WideMod(a, s) == ((a[1] % s) * (WideBase % s) + (a[2] % s)) % s

\* the double nearest to the integer a (below 2^60), ties to the even
\* significand
toDouble(a) ==
    LET k    == Cardinality({j \in 1..Len(PowersOfTwo) : WideLeq(PowersOfTwo[j], a)})
        s    == Pow2(k)
        r    == WideMod(a, s)
        half == s \div 2
        up   == r > half \/ (r = half /\ WideMod(a, 2 * s) # half)
    IN  IF r = 0 THEN a
        ELSE IF up THEN WideAdd(a, s - r)
        ELSE WideAdd(a, -r)

\* parseFloat(valueString) / VALUE_DIVISORS[dbCoinSymbol] for a valueString of
\* digits: the quotient with its numerator and its denominator
amountOfDigits(valueString, sym) ==
    [num |-> toDouble(WideOf(valueString)), den |-> VALUE_DIVISORS[sym]]

vs15Digits == <<"9", "9", "9", "9", "9", "9", "9", "9", "9", "9", "9", "9", "9", "9", "9">>
vs17Digits == <<"9", "9", "9", "9", "9", "9", "9", "9", "9", "9", "9", "9", "9", "9", "9", "9", "9">>
vs18Digits == <<"1", "2", "3", "4", "5", "6", "7", "8", "9", "0", "1", "2", "3", "4", "5", "6", "7", "8">>

\* confirmed deposits of each coin of the registry with small and large values
ConversionEvents ==
    [hash : Hashes, coin : DOMAIN COIN_MAPPINGS, state : {"confirmed"},
     receiver : {"addr1"},
     valueString : {vs5, vs150M, vs15Digits, vs17Digits, vs18Digits}]

\* lines 26-36: handleDeposit reads the event and resolves the coin
ReadEvent(p, e) ==
    /\ call[p].pc = "idle"
    /\ call' = [call EXCEPT ![p].pc = "convert", ![p].ev = e,
                            ![p].sym = dbCoinSymbol(e.coin)]
    /\ UNCHANGED <<tables, nextId>>

\* line 71: the amount of the event
ConvertAmount(p) ==
    /\ call[p].pc = "convert"
    /\ call' = [call EXCEPT ![p].pc = "converted",
                   ![p].amount = amountOfDigits(call[p].ev.valueString, call[p].sym)]
    /\ UNCHANGED <<tables, nextId>>

NextConversion ==
    \E p \in Calls :
        \/ /\ NextCall(p) /\ \E e \in ConversionEvents : NextHash(e.hash) /\ ReadEvent(p, e)
           /\ UNCHANGED <<request, provisioning, registering>>
        \/ ConvertAmount(p) /\ UNCHANGED <<request, provisioning, registering>>

SpecConversion == Init /\ [][NextConversion]_vars

----------------------------------------------------------------------------
(* The webhook front door: router.post('/bitgo') *)

\* !field of the destructured body: the field is missing or is the empty string
Falsy(body, f) == f \notin body.present \/ body.ev[f] = EmptyField(f)

\* the response of the error handler of the application (app.use((err, ...)))
FallbackStatus == 500

\* Webhook with handleDeposit awaited in the handler, before the response
Webhook_AwaitsDeposit(r, body) ==
    /\ request[r].pc = "none"
    /\ IF body.type # "transfer" \/ \E f \in Fields : Falsy(body, f)
       THEN /\ request' = [request EXCEPT ![r].pc = "closed", ![r].body = body,
                                            ![r].status = 400]
            /\ UNCHANGED call
       ELSE /\ request' = [request EXCEPT ![r].pc = "running", ![r].body = body,
                                            ![r].invoked = @ + 1]
            /\ Begin(r, body.ev)
    /\ UNCHANGED <<tables, nextId>>

\* Webhook without the test of the required fields
Webhook_TypeOnly(r, body) ==
    /\ request[r].pc = "none"
    /\ request' = [request EXCEPT ![r] =
          IF body.type # "transfer"
          THEN [@ EXCEPT !.pc = "closed", !.body = body, !.status = 400]
          ELSE [@ EXCEPT !.pc = "queued", !.body = body, !.status = 200]]
    /\ UNCHANGED <<tables, nextId, call>>

\* the handler, lines 6-35: 400 for a body of another type or with a required
\* field missing or empty; otherwise the task is queued with process.nextTick
\* and 200 is sent
Webhook(r, body) ==
    /\ request[r].pc = "none"
    /\ request' = [request EXCEPT ![r] =
          IF body.type # "transfer"
          THEN [@ EXCEPT !.pc = "closed", !.body = body, !.status = 400]
          ELSE IF \E f \in Fields : Falsy(body, f)
          THEN [@ EXCEPT !.pc = "closed", !.body = body, !.status = 400]
          ELSE [@ EXCEPT !.pc = "queued", !.body = body, !.status = 200]]
    /\ UNCHANGED <<tables, nextId, call>>

\* the queued task starts: handleDeposit(webhookData) is called
Tick(r) ==
    /\ request[r].pc = "queued"
    /\ request' = [request EXCEPT ![r].pc = "running", ![r].invoked = @ + 1]
    /\ Begin(r, request[r].body.ev)

\* the promise of handleDeposit settled: the try branch of the task logs the
\* success, its catch branch the failure
Settle(r) ==
    /\ request[r].pc = "running"
    /\ call[r].pc \in {"done", "rejected"}
    /\ request' = [request EXCEPT ![r].pc = "settled",
                      ![r].log = IF call[r].pc = "rejected" THEN "failed"
                                 ELSE "processed"]
    /\ UNCHANGED <<tables, nextId, call>>

\* requests are interchangeable: the next one takes the lowest free record,
\* and request r carries one of the first r hashes
NextRequest(r) ==
    request[r].pc = "none" /\ \A q \in Calls : q < r => request[q].pc # "none"

NextFrontDoor ==
    \E r \in Calls :
        \/ /\ NextRequest(r)
           /\ \E body \in Bodies :
                 /\ body \in AcceptedBodies =>
                        body.ev.hash \in {HashNames[i] : i \in 1..r}
                 /\ Webhook(r, body)
           /\ UNCHANGED <<provisioning, registering>>
        \/ Tick(r) /\ UNCHANGED <<provisioning, registering>>
        \/ Settle(r) /\ UNCHANGED <<provisioning, registering>>
        \/ Step(r) /\ UNCHANGED <<request, provisioning, registering>>

SpecFrontDoor == Init /\ [][NextFrontDoor]_vars

----------------------------------------------------------------------------
(* Address provisioning: generateUserAddresses (bitgoService) *)

\* a value of process.env or of a response that a test takes for true
Present(v) == v \notin {Undefined, "", Null}

\* the wallets array, in its order
wallets ==
    <<[coin |-> env.BTC_COIN,  walletId |-> env.BTC_WALLET_ID],
      [coin |-> env.ADA_COIN,  walletId |-> env.ADA_WALLET_ID],
      [coin |-> env.SOL_COIN,  walletId |-> env.SOL_WALLET_ID],
      [coin |-> env.DOGE_COIN, walletId |-> env.DOGE_WALLET_ID]>>

accessToken == env.BITGO_ACCESS_TOKEN

\* toUpperCase left out: the coin code is stored as it is
toUpperCase_AsIs(coin) == coin

\* coin.toUpperCase() of the coin codes of the wallets
toUpperCase(coin) ==
    CASE coin = "tbtc4" -> "TBTC4" [] coin = "tada" -> "TADA"
      [] coin = "tsol" -> "TSOL" [] coin = "tdoge" -> "TDOGE"

\* the user generateUserAddresses is called for: the id of a new row of users,
\* which holds no address before the first run
NewUser == 3

ProvisionedUsers == {NewUser}

\* the address the provider creates for the request of run n for a coin: a new
\* one at every request
NewAddress(n, coin) == coin \o "-address-" \o ToString(n)

\* what a request to the provider ends in: a response with the new address, a
\* response without an address, or a failure, which the catch of the task
\* turns into null
ProviderOutcomes(n, coin) == {NewAddress(n, coin), Undefined, Null}

\* the persistence transaction of the run is open
InTx(n) == run[n].pc \in {"insAddr", "insAddrAudit", "commitRun"}

\* the run ended: generateUserAddresses resolved ("done") or threw ("rejected")
Ended(n) == run[n].pc \in {"done", "rejected"}

\* Start without the filter on walletId: a request is sent for every entry of
\* wallets
Start_NoFilter(n, userId) ==
    /\ run[n].pc = "idle"
    /\ run' = [run EXCEPT ![n] =
          IF ~Present(accessToken)
          THEN [@ EXCEPT !.pc = "done", !.userId = userId]
          ELSE [@ EXCEPT !.pc = "waiting", !.userId = userId,
                  !.fresh = ~\E r \in user_addresses : r.user_id = userId,
                  !.issued = [k \in 1..Len(wallets) |-> 1],
                  !.tasks = [c \in {wallets[k].coin : k \in 1..Len(wallets)}
                               |-> Pending]]]
    /\ UNCHANGED <<tables, nextId, call, request, env>>

\* Start without the test of the access token: the requests are sent anyway
Start_NoTokenTest(n, userId) ==
    /\ run[n].pc = "idle"
    /\ run' = [run EXCEPT ![n] =
             [@ EXCEPT !.pc = "waiting", !.userId = userId,
                  !.fresh = ~\E r \in user_addresses : r.user_id = userId,
                  !.issued = [k \in 1..Len(wallets) |->
                                IF Present(wallets[k].walletId) THEN 1 ELSE 0],
                  !.tasks = [c \in {wallets[k].coin : k \in
                                     {j \in 1..Len(wallets) : Present(wallets[j].walletId)}}
                               |-> Pending]]]
    /\ UNCHANGED <<tables, nextId, call, request, env>>

\* lines 137-156: without an access token the run returns at once; otherwise
\* one request is sent for every wallet that has a walletId
Start(n, userId) ==
    /\ run[n].pc = "idle"
    /\ run' = [run EXCEPT ![n] =
          IF ~Present(accessToken)
          THEN [@ EXCEPT !.pc = "done", !.userId = userId]
          ELSE [@ EXCEPT !.pc = "waiting", !.userId = userId,
                  !.fresh = ~\E r \in user_addresses : r.user_id = userId,
                  !.issued = [k \in 1..Len(wallets) |->
                                IF Present(wallets[k].walletId) THEN 1 ELSE 0],
                  !.tasks = [c \in {wallets[k].coin : k \in
                                     {j \in 1..Len(wallets) : Present(wallets[j].walletId)}}
                               |-> Pending]]]
    /\ UNCHANGED <<tables, nextId, call, request, env>>

\* lines 144-156: the request for one coin settles
ProviderResponds(n, coin, outcome) ==
    /\ run[n].pc = "waiting"
    /\ coin \in DOMAIN run[n].tasks
    /\ run[n].tasks[coin] = Pending
    /\ run' = [run EXCEPT ![n].tasks[coin] = outcome]
    /\ UNCHANGED <<tables, nextId, call, request, env, registering>>

\* results filtered to the pairs with an address, in the order of wallets
Successful(tasks) ==
    LET Kept(w) == /\ Present(w.walletId)
                   /\ w.coin \in DOMAIN tasks
                   /\ Present(tasks[w.coin])
        kept    == SelectSeq(wallets, Kept)
    IN  [k \in 1..Len(kept) |-> [coin |-> kept[k].coin, address |-> tasks[kept[k].coin]]]

\* AllSettled that gives up when one of the requests failed (Promise.all
\* without the catch of each task)
AllSettled_FailsTogether(n) ==
    /\ run[n].pc = "waiting"
    /\ \A c \in DOMAIN run[n].tasks : run[n].tasks[c] # Pending
    /\ LET successfulAddresses == Successful(run[n].tasks)
       IN  run' = [run EXCEPT ![n] =
              IF \/ Len(successfulAddresses) = 0
                 \/ \E c \in DOMAIN run[n].tasks : run[n].tasks[c] = Null
              THEN [@ EXCEPT !.pc = "done"]
              ELSE [@ EXCEPT !.pc = "insAddr", !.i = 1,
                             !.successfulAddresses = successfulAddresses]]
    /\ UNCHANGED <<tables, nextId, call, request, env, registering>>

\* AllSettled that goes on as soon as one request has settled (Promise.race in
\* place of Promise.allSettled)
AllSettled_AnySettled(n) ==
    /\ run[n].pc = "waiting"
    /\ \E c \in DOMAIN run[n].tasks : run[n].tasks[c] # Pending
    /\ LET settled == [c \in {d \in DOMAIN run[n].tasks : run[n].tasks[d] # Pending}
                         |-> run[n].tasks[c]]
           successfulAddresses == Successful(settled)
       IN  run' = [run EXCEPT ![n] =
              IF Len(successfulAddresses) = 0
              THEN [@ EXCEPT !.pc = "done"]
              ELSE [@ EXCEPT !.pc = "insAddr", !.i = 1,
                             !.successfulAddresses = successfulAddresses]]
    /\ UNCHANGED <<tables, nextId, call, request, env, registering>>

\* AllSettled without the return of line 165: db.tx opens the transaction also
\* when no pair is left
AllSettled_AlwaysOpens(n) ==
    /\ run[n].pc = "waiting"
    /\ \A c \in DOMAIN run[n].tasks : run[n].tasks[c] # Pending
    /\ LET successfulAddresses == Successful(run[n].tasks)
       IN  run' = [run EXCEPT ![n] =
              [@ EXCEPT !.pc = IF Len(successfulAddresses) = 0 THEN "commitRun"
                               ELSE "insAddr",
                        !.i = 1, !.successfulAddresses = successfulAddresses]]
    /\ UNCHANGED <<tables, nextId, call, request, env, registering>>

\* lines 158-168: every request has settled; without a successful pair the run
\* returns, otherwise db.tx opens the transaction
AllSettled(n) ==
    /\ run[n].pc = "waiting"
    /\ \A c \in DOMAIN run[n].tasks : run[n].tasks[c] # Pending
    /\ LET successfulAddresses == Successful(run[n].tasks)
       IN  run' = [run EXCEPT ![n] =
              IF Len(successfulAddresses) = 0
              THEN [@ EXCEPT !.pc = "done"]
              ELSE [@ EXCEPT !.pc = "insAddr", !.i = 1,
                             !.successfulAddresses = successfulAddresses]]
    /\ UNCHANGED <<tables, nextId, call, request, env, registering>>

\* the row of user_addresses for the pair the loop is at
AddressRow(n) ==
    LET pair == run[n].successfulAddresses[run[n].i]
    IN  [user_id |-> run[n].userId, crypto |-> toUpperCase(pair.coin),
         address |-> pair.address]

\* another open transaction holds an uncommitted row of (user_id, crypto): the
\* insert waits for it; a NULL user_id equals no other
KeyLocked(n, row) ==
    /\ row.user_id # NoId
    /\ \E m \in Runs \ {n} :
          InTx(m) /\ \E w \in run[m].wAddr :
                        w.user_id = row.user_id /\ w.crypto = row.crypto

\* the transaction of another run for the same user is open
Overlaps(n) == \E m \in Runs \ {n} : InTx(m) /\ run[m].userId = run[n].userId

\* the rows of (user_id, crypto) the statement sees
Conflicting(n, row) ==
    {w \in user_addresses \cup run[n].wAddr :
        row.user_id # NoId /\ w.user_id = row.user_id /\ w.crypto = row.crypto}

\* InsertAddress as a plain INSERT into a table without the unique index
InsertAddress_NoConflictTarget(n) ==
    /\ run[n].pc = "insAddr"
    /\ run' = [run EXCEPT ![n].pc = "insAddrAudit",
                          ![n].overlapped = @ \/ Overlaps(n),
                          ![n].wAddr = @ \cup {AddressRow(n)}]
    /\ UNCHANGED <<tables, nextId, call, request, env, registering>>

\* InsertAddress with ON CONFLICT (user_id, crypto) DO UPDATE SET address =
\* EXCLUDED.address: the new address is written for the key also when the key
\* has a row
InsertAddress_DoUpdate(n) ==
    /\ run[n].pc = "insAddr"
    /\ LET row == AddressRow(n)
       IN  /\ ~KeyLocked(n, row)
           /\ run' = [run EXCEPT ![n].pc = "insAddrAudit",
                                 ![n].overlapped = @ \/ Overlaps(n),
                                 ![n].wAddr = (@ \ Conflicting(n, row)) \cup {row}]
    /\ UNCHANGED <<tables, nextId, call, request, env, registering>>

\* lines 172-177: INSERT INTO user_addresses ... ON CONFLICT (user_id, crypto)
\* DO NOTHING
InsertAddress(n) ==
    /\ run[n].pc = "insAddr"
    /\ LET row == AddressRow(n)
       IN  /\ ~KeyLocked(n, row)
           /\ run' = [run EXCEPT ![n].pc = "insAddrAudit",
                        ![n].overlapped = @ \/ Overlaps(n),
                        ![n].wAddr = IF Conflicting(n, row) = {} THEN @ \cup {row}
                                     ELSE @]
    /\ UNCHANGED <<tables, nextId, call, request, env, registering>>

\* lines 179-184: the audit row of the pair, then the next pair or the end of
\* the callback
InsertAddressAudit(n) ==
    /\ run[n].pc = "insAddrAudit"
    /\ LET pair == run[n].successfulAddresses[run[n].i]
           row  == [bitgo_wallet_id |-> nextId, event_type |-> "address_generation",
                    payload |-> [userId |-> run[n].userId, coin |-> pair.coin,
                                 address |-> pair.address]]
       IN  run' = [run EXCEPT ![n].wAudit = @ \cup {row},
                              ![n].i = @ + 1,
                              ![n].pc = IF run[n].i < Len(run[n].successfulAddresses)
                                        THEN "insAddr" ELSE "commitRun"]
    /\ nextId' = nextId + 1
    /\ UNCHANGED <<tables, call, request, env, registering>>

\* COMMIT of the persistence transaction
CommitRun(n) ==
    /\ run[n].pc = "commitRun"
    /\ user_addresses' = user_addresses \cup run[n].wAddr
    /\ bitgo_wallet' = bitgo_wallet \cup run[n].wAudit
    /\ run' = [run EXCEPT ![n].pc = "done"]
    /\ UNCHANGED <<deposits, user_balances, nextId, call, request, env, registering>>

\* RunStoreError with the statements sent outside the transaction: the rows
\* written before the failure stay in the tables
RunStoreError_KeepsWrites(n) ==
    /\ InTx(n)
    /\ user_addresses' = user_addresses \cup run[n].wAddr
    /\ bitgo_wallet' = bitgo_wallet \cup run[n].wAudit
    /\ run' = [run EXCEPT ![n].pc = "done", ![n].err = "store"]
    /\ UNCHANGED <<deposits, user_balances, nextId, call, request, env, registering>>

\* lines 168-189: a statement of the transaction fails: db.tx rolls back and
\* rejects, the catch block logs the error and the run resolves
RunStoreError(n) ==
    /\ InTx(n)
    /\ run' = [run EXCEPT ![n].pc = "done", ![n].err = "store",
                          ![n].wAddr = {}, ![n].wAudit = {}]
    /\ UNCHANGED <<tables, nextId, call, request, env, registering>>

\* runs are interchangeable: the next one takes the lowest idle record
NextRun(n) == run[n].pc = "idle" /\ \A m \in Runs : m < n => run[m].pc # "idle"

NextProvision ==
    \E n \in Runs :
        \/ /\ NextRun(n) /\ \E userId \in ProvisionedUsers : Start(n, userId)
           /\ UNCHANGED registering
        \/ \E coin \in DOMAIN run[n].tasks :
              \E outcome \in ProviderOutcomes(n, coin) :
                 ProviderResponds(n, coin, outcome)
        \/ AllSettled(n)
        \/ InsertAddress(n)
        \/ InsertAddressAudit(n)
        \/ CommitRun(n)
        \/ RunStoreError(n)

SpecProvision == InitProvision /\ [][NextProvision]_vars

\* process.env with an empty access token
EmptyTokenEnv == [ConfiguredEnv EXCEPT !.BITGO_ACCESS_TOKEN = ""]

\* the userId argument of generateUserAddresses: a stored user with addresses
\* of two coins, one with an address of one coin, and the new user
UserIds == {1, 2, NewUser}

\* generateUserAddresses for any user, with and without the access token
InitAnyUser ==
    /\ user_addresses = ProvisionedAddresses
    /\ deposits = {}
    /\ user_balances = <<>>
    /\ bitgo_wallet = {}
    /\ nextId = 1
    /\ call = [p \in Calls |-> IdleCall]
    /\ request = [r \in Calls |-> NoRequest]
    /\ env \in {ConfiguredEnv, NoTokenEnv, EmptyTokenEnv}
    /\ run = [n \in Runs |-> IdleRun]
    /\ users = ExistingUsers
    /\ registration = [r \in Runs |-> NoRegistration]

NextAnyUser ==
    \E n \in {1, 2} :
        \/ /\ NextRun(n) /\ \E userId \in UserIds : Start(n, userId)
           /\ UNCHANGED registering
        \/ \E coin \in DOMAIN run[n].tasks :
              \E outcome \in {NewAddress(n, coin), Null} :
                 ProviderResponds(n, coin, outcome)
        \/ AllSettled(n)
        \/ InsertAddress(n)
        \/ InsertAddressAudit(n)
        \/ CommitRun(n)
        \/ RunStoreError(n)

SpecAnyUser == InitAnyUser /\ [][NextAnyUser]_vars

----------------------------------------------------------------------------
(* Registration: UserRegister (userController).  Request r is served by    *)
(* generateUserAddresses run r.                                            *)

RegistrationFields ==
    {"email", "phone", "fname", "lname", "dob", "password", "trx_pin"}

\* a registration of a person the store does not know
SampleRegistration ==
    [email |-> "new@x.io", phone |-> "+3", fname |-> "Ada", lname |-> "Lovelace",
     dob |-> "1990-05-17", password |-> "secret", trx_pin |-> "1234"]

\* req.body of the registrations: the sample, the sample with the email or the
\* phone of a stored user, with a missing or empty field, and with a date of
\* birth that is no date, in the future or before 1900
RegistrationBodies ==
    {SampleRegistration,
     [SampleRegistration EXCEPT !.email = "a@x.io"],
     [SampleRegistration EXCEPT !.phone = "+1"],
     [SampleRegistration EXCEPT !.trx_pin = Undefined],
     [SampleRegistration EXCEPT !.email = ""],
     [SampleRegistration EXCEPT !.dob = "not-a-date"],
     [SampleRegistration EXCEPT !.dob = "2999-01-01"],
     [SampleRegistration EXCEPT !.dob = "1899-12-31"]}

\* the time value of an invalid Date
InvalidDate == -1

\* new Date(dob).getTime(), in days written as yyyymmdd
DateValue(dob) ==
    CASE dob = "1990-05-17" -> 19900517
      [] dob = "2999-01-01" -> 29990101
      [] dob = "1899-12-31" -> 18991231
      [] OTHER -> InvalidDate

\* new Date() when the request is handled
currentDate == 20261102

minDate == 19000101

\* the id the sequence of users gives the row of request r: a new one at every
\* insert
NewUserId(r) == NewUser + r - 1

\* process.env with the access token and the wallet of one coin
SingleWalletEnv == [ConfiguredEnv EXCEPT !.SOL_WALLET_ID = Undefined]

InitRegister ==
    /\ user_addresses = ProvisionedAddresses
    /\ deposits = {}
    /\ user_balances = <<>>
    /\ bitgo_wallet = {}
    /\ nextId = 1
    /\ call = [p \in Calls |-> IdleCall]
    /\ request = [r \in Calls |-> NoRequest]
    /\ env = SingleWalletEnv
    /\ run = [n \in Runs |-> IdleRun]
    /\ users = ExistingUsers
    /\ registration = [r \in Runs |-> NoRegistration]

\* the transaction of request r is open
InRegTx(r) == registration[r].pc \in {"select", "insert", "commitReg"}

\* res.status(code).json(...): the first response of a request is the one the
\* client gets; a second one throws (the headers are sent)
Respond(reg, code) ==
    IF reg.status = 0 THEN [reg EXCEPT !.status = code, !.pc = "closed"]
    ELSE [reg EXCEPT !.pc = "rejected"]

\* lines 47-82: the checks of the body, then db.tx opens the transaction
Register(r, body) ==
    /\ registration[r].pc = "none"
    /\ registration' = [registration EXCEPT ![r] =
          IF \E f \in RegistrationFields : ~Present(body[f])
          THEN [@ EXCEPT !.pc = "closed", !.body = body, !.status = 400]
          ELSE IF DateValue(body.dob) = InvalidDate
          THEN [@ EXCEPT !.pc = "closed", !.body = body, !.status = 400]
          ELSE IF DateValue(body.dob) > currentDate \/ DateValue(body.dob) < minDate
          THEN [@ EXCEPT !.pc = "closed", !.body = body, !.status = 400]
          ELSE [@ EXCEPT !.pc = "select", !.body = body]]
    /\ UNCHANGED <<tables, nextId, call, request, provisioning, users>>

\* lines 83-93: the query for a user with the email or the phone; when there is
\* one the 409 response is sent and the callback returns res, which db.tx
\* commits and resolves with
RegSelect(r) ==
    /\ registration[r].pc = "select"
    /\ LET body == registration[r].body
           existingUser == \E u \in users :
                              u.email = body.email \/ u.phone_number = body.phone
       IN  registration' = [registration EXCEPT ![r] =
              IF existingUser
              THEN [@ EXCEPT !.pc = "commitReg", !.status = 409, !.newUser = NoId]
              ELSE [@ EXCEPT !.pc = "insert"]]
    /\ UNCHANGED <<tables, nextId, call, request, provisioning, users>>

\* lines 95-104: the hashes, then INSERT INTO users ... RETURNING id, email
RegInsert(r) ==
    /\ registration[r].pc = "insert"
    /\ LET body == registration[r].body
           row  == [id |-> NewUserId(r), email |-> body.email,
                    phone_number |-> body.phone]
       IN  registration' = [registration EXCEPT ![r].pc = "commitReg",
                               ![r].w = {row}, ![r].newUser = row.id]
    /\ UNCHANGED <<tables, nextId, call, request, provisioning, users>>

\* line 105: COMMIT; db.tx resolves with what the callback returned
RegCommit(r) ==
    /\ registration[r].pc = "commitReg"
    /\ users' = users \cup registration[r].w
    /\ registration' = [registration EXCEPT ![r].pc = "finish"]
    /\ UNCHANGED <<tables, nextId, call, request, provisioning>>

\* RegFinish with await generateUserAddresses(newUser.id): the response is sent
\* when the run has ended
RegFinish_Awaits(r) ==
    /\ registration[r].pc = "finish"
    /\ \/ /\ registration[r].provisioned = 0
          /\ Start(r, registration[r].newUser)
          /\ registration' = [registration EXCEPT ![r].provisioned = @ + 1]
       \/ /\ registration[r].provisioned = 1
          /\ Ended(r)
          /\ registration' = [registration EXCEPT ![r] = Respond(@, 201)]
          /\ UNCHANGED <<tables, nextId, call, request, provisioning>>
    /\ UNCHANGED users

\* lines 107-113: the token for newUser.id, the call of generateUserAddresses,
\* which runs up to its first await, and the 201 response; when the 409 was
\* sent already, json throws and so does the 500 of the catch block
RegFinish(r) ==
    /\ registration[r].pc = "finish"
    /\ Start(r, registration[r].newUser)
    /\ registration' = [registration EXCEPT ![r] =
                           Respond([@ EXCEPT !.provisioned = @ + 1], 201)]
    /\ UNCHANGED users

\* lines 82-121: a statement of the transaction fails: db.tx rolls back and
\* rejects, and the catch block answers 500
RegStoreError(r) ==
    /\ InRegTx(r)
    /\ registration' = [registration EXCEPT ![r] =
                           Respond([@ EXCEPT !.w = {}, !.err = "store"], 500)]
    /\ UNCHANGED <<tables, nextId, call, request, provisioning, users>>

\* requests are interchangeable: the next one takes the lowest free record
NextRegistration(r) ==
    registration[r].pc = "none" /\ \A q \in Runs : q < r => registration[q].pc # "none"

NextRegister ==
    \E r \in Runs :
        \/ NextRegistration(r) /\ \E body \in RegistrationBodies : Register(r, body)
        \/ RegSelect(r)
        \/ RegInsert(r)
        \/ RegCommit(r)
        \/ RegFinish(r)
        \/ RegStoreError(r)
        \/ \E coin \in DOMAIN run[r].tasks :
              \E outcome \in ProviderOutcomes(r, coin) :
                 ProviderResponds(r, coin, outcome)
        \/ AllSettled(r)
        \/ InsertAddress(r)
        \/ InsertAddressAudit(r)
        \/ CommitRun(r)
        \/ RunStoreError(r)

SpecRegister == InitRegister /\ [][NextRegister]_vars

----------------------------------------------------------------------------
(* Deliveries of deposits while the addresses of the new user are          *)
(* provisioned: handleDeposit and generateUserAddresses on one store       *)

\* deposits to a provisioned address and to the address the provider creates
\* for the new user
BothEvents ==
    [hash : Hashes, coin : {"tbtc4"}, state : {"confirmed", "pending"},
     receiver : {"addr1", NewAddress(1, "tbtc4")}, valueString : {vs150M}]
    \cup {[hash |-> h, coin |-> c, state |-> "confirmed",
           receiver |-> NewAddress(1, c), valueString |-> vs150M] :
             h \in Hashes, c \in {"tsol", "tada", "tdoge"}}

\* process.env with the wallets of the other two coins
OtherWalletsEnv ==
    [ConfiguredEnv EXCEPT !.BTC_WALLET_ID = "", !.ADA_WALLET_ID = "wallet-ada",
                          !.SOL_WALLET_ID = Undefined,
                          !.DOGE_WALLET_ID = "wallet-doge"]

InitBoth ==
    /\ user_addresses = ProvisionedAddresses
    /\ deposits = {}
    /\ user_balances = <<>>
    /\ bitgo_wallet = {}
    /\ nextId = 1
    /\ call = [p \in Calls |-> IdleCall]
    /\ request = [r \in Calls |-> NoRequest]
    /\ env \in {ConfiguredEnv, OtherWalletsEnv}
    /\ run = [n \in Runs |-> IdleRun]
    /\ users = ExistingUsers
    /\ registration = [r \in Runs |-> NoRegistration]

NextBoth ==
    \/ \E p \in {1, 2} :
          /\ NextCall(p) /\ \E e \in BothEvents : NextHash(e.hash) /\ Begin(p, e)
          /\ UNCHANGED <<request, provisioning, registering>>
    \/ \E p \in {1, 2} : Step(p) /\ UNCHANGED <<request, provisioning, registering>>
    \/ Start(1, NewUser) /\ UNCHANGED registering
    \/ \E coin \in DOMAIN run[1].tasks :
          \E outcome \in {NewAddress(1, coin), Null} :
             ProviderResponds(1, coin, outcome)
    \/ AllSettled(1)
    \/ InsertAddress(1)
    \/ InsertAddressAudit(1)
    \/ CommitRun(1)
    \/ RunStoreError(1)

SpecBoth == InitBoth /\ [][NextBoth]_vars

----------------------------------------------------------------------------
(* What the claims speak of *)

Done(p) == call[p].pc = "done"

Begun(p) == call[p].pc # "idle"

DepositsOf(h) == {d \in deposits : d.blockchain_tx_hash = h}

AuditOf(h) == {a \in bitgo_wallet : a.payload.hash = h}

\* the call committed no row
WroteNothing(p) == call[p].wAudit = {} /\ call[p].wDep = {} /\ call[p].wBal = {}

\* the call committed an increment of a balance
Credited(p) == Done(p) /\ call[p].wBal # {}

Zero == <<0, 1>>

Positive(x) == x[1] > 0 /\ x[2] > 0

Balance(key) == IF key \in DOMAIN user_balances THEN user_balances[key] ELSE Zero

RECURSIVE SumAmounts(_)
SumAmounts(S) ==
    IF S = {} THEN Zero
    ELSE LET d == CHOOSE x \in S : TRUE IN Plus(d.amount, SumAmounts(S \ {d}))

Users == {r.user_id : r \in ProvisionedAddresses}

----------------------------------------------------------------------------
\* C1: Idempotence of ingest. Whatever calls were made, each hash has at most one
\* DepositRecord and at most one call carrying it incremented a balance; a call
\* that began when a DepositRecord of its hash was already committed returns
\* false and commits no row of the deposits, balances or audit table.
C1_Idempotence ==
    /\ \A h \in Hashes :
         /\ Cardinality(DepositsOf(h)) <= 1
         /\ Cardinality({p \in Calls : Credited(p) /\ call[p].ev.hash = h}) <= 1
    /\ \A p \in Calls :
         Done(p) /\ call[p].dup => ~call[p].ret /\ WroteNothing(p)

\* a second delivery of a hash whose first delivery was credited has ended
C1_Witness ==
    \E p, q \in Calls :
        /\ p # q /\ Done(p) /\ Done(q)
        /\ call[p].ev.hash = call[q].ev.hash
        /\ call[p].ret /\ Credited(p)
        /\ call[q].dup /\ call[q].err = "none"
        /\ Cardinality(DepositsOf(call[p].ev.hash)) = 1

\* C2: Conservation. In every committed state the balance of each (user,
\* currency) is the sum of the amounts of its completed DepositRecords.
C2_Conservation ==
    \A u \in Users, c \in currencies :
        Balance(<<u, c>>) =
            SumAmounts({d \in deposits :
                          d.user_id = u /\ d.crypto = c /\ d.status = "completed"})

\* two completed deposits of one user and currency are committed and credited
C2_Witness ==
    \E u \in Users, c \in currencies :
        /\ Cardinality({d \in deposits :
               d.user_id = u /\ d.crypto = c /\ d.status = "completed"}) = 2
        /\ Positive(Balance(<<u, c>>))

\* the calls begun so far are N deliveries of distinct confirmed events of one
\* amount to the address of one (user, currency), all ended, none on a store error
ConcurrentCredits(S) ==
    /\ S # {}
    /\ \A p \in S : /\ Done(p)
                    /\ call[p].err = "none"
                    /\ call[p].ev.state = "confirmed"
                    /\ call[p].ev.receiver = "addr1"
                    /\ call[p].ev.coin = "tbtc4"
                    /\ call[p].ev.valueString = vs150M
    /\ \A p, q \in S : p # q => call[p].ev.hash # call[q].ev.hash

\* C3: Concurrent credit safety. N deliveries of N distinct confirmed events of
\* amount a for one (user, currency), starting without a BalanceRecord, end in a
\* balance of exactly N*a under every interleaving.
C3_ConcurrentCredit ==
    LET S == {p \in Calls : Begun(p)}
    IN  ConcurrentCredits(S) =>
            Balance(<<1, "TBTC4">>) = Times(amountOf(vs150M, "TBTC4"), Cardinality(S))

\* two such deliveries ended, one having sent its upsert while the other was about to
C3_Witness ==
    LET S == {p \in Calls : Begun(p)}
    IN  /\ ConcurrentCredits(S)
        /\ Cardinality(S) >= 2
        /\ \E p \in S : call[p].racing

\* the calls carrying hash h that passed the existence check and met no store error
Contenders(h) ==
    {p \in Calls : /\ Begun(p)
                   /\ call[p].ev.hash = h
                   /\ call[p].bitgo_wallet_id # 0
                   /\ call[p].err # "store"}

\* C4: Exactly-once crediting under concurrent duplicate delivery. When the
\* deliveries of one confirmed event all passed the existence check and have
\* ended, the hash has exactly one DepositRecord, one audit row and one balance
\* increment; one call returned true and every other one returned false on the
\* unique violation with none of its rows in the store.
C4_ExactlyOnce ==
    \A h \in Hashes :
        LET W == Contenders(h)
        IN  (/\ Cardinality(W) >= 2
             /\ \A p \in Calls : call[p].ev.hash = h => Done(p)
             /\ \A p \in W : call[p].ev.state = "confirmed" /\ ~call[p].dup)
            => /\ Cardinality(DepositsOf(h)) = 1
               /\ Cardinality(AuditOf(h)) = 1
               /\ Cardinality({p \in W : call[p].ret}) = 1
               /\ Cardinality({p \in W : Credited(p)}) = 1
               /\ \A p \in W : ~call[p].ret =>
                     /\ call[p].err = "unique"
                     /\ ~\E a \in bitgo_wallet :
                            a.bitgo_wallet_id = call[p].bitgo_wallet_id
                     /\ ~\E d \in deposits : d.bitgo_uid = call[p].bitgo_wallet_id

\* both deliveries of one confirmed event passed the check, and one lost
C4_Witness ==
    \E p, q \in Calls :
        /\ p # q /\ Done(p) /\ Done(q)
        /\ call[p].ev = call[q].ev /\ call[p].ev.state = "confirmed"
        /\ ~call[p].dup /\ ~call[q].dup
        /\ call[p].ret /\ call[q].err = "unique"
        /\ Balance(<<call[p].user_id, call[p].sym>>) = call[p].amount

----------------------------------------------------------------------------
(* The events the claims about one delivery speak of *)

KnownCoin(e) == e.coin \in DOMAIN COIN_MAPPINGS

\* an AddressRecord holds the receiver under the currency the coin resolves to
Tracked(e) ==
    /\ KnownCoin(e)
    /\ \E r \in user_addresses :
          r.address = e.receiver /\ r.crypto = COIN_MAPPINGS[e.coin]

IsDecimalInteger(s) == Len(s) > 0 /\ \A i \in 1..Len(s) : s[i] \in Digits

PositiveInteger(s) == IsDecimalInteger(s) /\ \E i \in 1..Len(s) : s[i] # "0"

\* "0", a negative number, non-numeric text
BadValues == {vsZero, vsNeg, vsAbc}

\* the deposit row the call inserted, if it is in the store
RowsOf(p) == {d \in deposits : d.bitgo_uid = call[p].bitgo_wallet_id}

\* C5: Status mapping. A delivery with a known coin, a tracked receiver, a
\* positive amount and a hash without a DepositRecord stores completed and
\* credits when the state is "confirmed", stores failed without a credit when
\* it is "failed", and stores pending without a credit for every other state;
\* only "confirmed" ever credits.
C5_StatusMapping ==
    /\ \A p \in Calls :
         (/\ Done(p) /\ call[p].err # "store"
          /\ Tracked(call[p].ev) /\ PositiveInteger(call[p].ev.valueString)
          /\ ~call[p].dup)
         => LET stored == {d.status : d \in RowsOf(p)}
                state  == call[p].ev.state
            IN  /\ state = "confirmed" => stored = {"completed"} /\ Credited(p)
                /\ state = "failed" => stored = {"failed"} /\ ~Credited(p)
                /\ state \notin {"confirmed", "failed"} =>
                       stored = {"pending"} /\ ~Credited(p)
    /\ \A p \in Calls : Credited(p) => call[p].ev.state = "confirmed"

\* C6 as stated: after a conversion error nothing the call wrote, the audit row
\* included, is in the store.
C6_RolledBack ==
    \A p \in Calls :
        (/\ Done(p) /\ call[p].bitgo_wallet_id # 0
         /\ invalidAmount(call[p].amount))
        => /\ RowsOf(p) = {}
           /\ ~\E a \in bitgo_wallet : a.bitgo_wallet_id = call[p].bitgo_wallet_id

\* C6 amended: a conversion error ends the call with false and without a
\* DepositRecord or a balance change, but the transaction is committed, not
\* rolled back: unless the store itself failed, the raw-payload audit row
\* inserted before the conversion is in the store.
C6_ConversionErrorCommits ==
    \A p \in Calls :
        (/\ Done(p) /\ call[p].bitgo_wallet_id # 0
         /\ invalidAmount(amountOf(call[p].ev.valueString, call[p].sym))
         /\ call[p].err # "store")
        => /\ ~call[p].ret
           /\ RowsOf(p) = {} /\ call[p].wBal = {}
           /\ [bitgo_wallet_id |-> call[p].bitgo_wallet_id,
               event_type |-> "crypto_deposit", payload |-> call[p].ev]
                 \in bitgo_wallet

\* a delivery of "abc" ended after its audit row was inserted
C6_Witness ==
    \E p \in Calls :
        /\ Done(p) /\ call[p].err = "none" /\ ~call[p].ret
        /\ call[p].ev.valueString = vsAbc
        /\ \E a \in bitgo_wallet : a.payload = call[p].ev

\* no step of a delivery of a bad amount to a tracked address changes the
\* deposits or the balances, and it ends with false
C7_Step ==
    \A p \in Calls :
        (/\ call'[p] # call[p]
         /\ Tracked(call'[p].ev)
         /\ call'[p].ev.valueString \in BadValues)
        => /\ deposits' = deposits
           /\ user_balances' = user_balances
           /\ call'[p].pc = "done" => ~call'[p].ret

\* C7: Non-positive amount rejection. For a known coin and a tracked receiver a
\* valueString "0", "-5" or "abc" creates no DepositRecord, changes no balance
\* and returns false, whatever the state; every stored DepositRecord has amount > 0.
C7_NonPositiveRejected ==
    /\ [][C7_Step]_vars
    /\ [](\A d \in deposits : Positive(d.amount))

\* a delivery of "0" with state confirmed reached the conversion and ended;
\* a deposit of another delivery is stored
C7_Witness ==
    /\ \E p \in Calls :
        /\ Done(p) /\ call[p].err = "none" /\ ~call[p].ret
        /\ call[p].ev.valueString = vsZero /\ call[p].ev.state = "confirmed"
        /\ call[p].bitgo_wallet_id # 0
    /\ deposits # {}

\* C8: Amount parsing accepts only decimal integer strings. A valueString that
\* is not entirely a decimal integer ("12abc", "1.5", "1e3") is rejected: no
\* DepositRecord is created and no balance is credited for it (stated for the
\* deliveries whose state is one of DEPOSIT_STATES).
C8_IntegerOnly ==
    \A p \in Calls :
        (/\ Done(p) /\ Tracked(call[p].ev)
         /\ call[p].ev.state \in DOMAIN DEPOSIT_STATES
         /\ ~IsDecimalInteger(call[p].ev.valueString))
        => ~call[p].ret /\ RowsOf(p) = {} /\ ~Credited(p)

\* C9: Unknown currency rejection. A delivery whose coin is not a key of
\* COIN_MAPPINGS returns false, commits no row to any table and does not query
\* the address table.
C9_UnknownCoin ==
    \A p \in Calls :
        (Done(p) /\ ~KnownCoin(call[p].ev))
        => ~call[p].ret /\ WroteNothing(p) /\ ~call[p].queried

\* no step of a delivery to an untracked receiver changes a table, and it ends
\* with false
C10_Step ==
    \A p \in Calls :
        (/\ call'[p] # call[p]
         /\ KnownCoin(call'[p].ev) /\ ~Tracked(call'[p].ev))
        => /\ UNCHANGED tables
           /\ call'[p].pc = "done" => ~call'[p].ret

\* C10: Untracked receiver. For a known coin whose (receiver, resolved symbol)
\* matches no AddressRecord, handleDeposit returns false and leaves every table
\* unchanged; an address held under another currency symbol is no match.
C10_Untracked == [][C10_Step]_vars

\* a delivery for tbtc4 to addr3, which is held under TSOL only, was looked up
\* and ended
C10_Witness ==
    \E p \in Calls :
        /\ Done(p) /\ call[p].err = "none" /\ ~call[p].ret
        /\ call[p].ev.coin = "tbtc4" /\ call[p].ev.receiver = "addr3"
        /\ \E r \in user_addresses : r.address = "addr3" /\ r.crypto = "TSOL"
        /\ call[p].queried

----------------------------------------------------------------------------
(* Store failures *)

\* the call ended in its catch block: a statement of its transaction failed
Failed(p) == Done(p) /\ call[p].err # "none"

\* a step that ends a call in its catch block changes no table
C11_Step ==
    \A p \in Calls :
        (call'[p] # call[p] /\ call'[p].err # "none") => UNCHANGED tables

\* C11: All-or-nothing on store failure. When a store operation of a
\* handleDeposit call fails, the step that fails changes no table, and
\* afterwards the call has returned false and neither its audit row nor its
\* DepositRecord is in the store, while every balance is still the sum of the
\* completed DepositRecords, none of which is that call's.
C11_AllOrNothing ==
    /\ [][C11_Step]_vars
    /\ [](\A p \in Calls :
            Failed(p) =>
               /\ ~call[p].ret
               /\ RowsOf(p) = {}
               /\ ~\E a \in bitgo_wallet :
                      a.bitgo_wallet_id = call[p].bitgo_wallet_id
               /\ WroteNothing(p)
               /\ C2_Conservation)

\* a delivery of a confirmed event failed on the store after its audit row and
\* its deposit row had been inserted
C11_Witness ==
    \E p \in Calls :
        /\ Done(p) /\ call[p].err = "store"
        /\ call[p].bitgo_wallet_id # 0
        /\ call[p].status = "completed"
        /\ bitgo_wallet = {} /\ deposits = {}

\* C12: Redelivery after an abort is new input. When the delivery of a valid
\* confirmed event was rolled back by a store failure and the same event is
\* delivered again afterwards to a healthy store, the second call is not a
\* duplicate: it returns true, its DepositRecord is the only one of the hash
\* and the balance holds the amount once.
C12_RedeliveryAfterAbort ==
    (/\ Done(1) /\ call[1].err = "store"
     /\ Done(2) /\ call[2].err = "none"
     /\ call[2].ev = call[1].ev
     /\ call[2].ev.state = "confirmed")
    => /\ ~call[2].dup
       /\ call[2].ret /\ Credited(2)
       /\ DepositsOf(call[2].ev.hash) = RowsOf(2)
       /\ Cardinality(RowsOf(2)) = 1
       /\ Balance(<<call[2].user_id, call[2].sym>>) = call[2].amount

\* the first delivery failed after it had inserted its deposit row, and the
\* redelivery has ended
C12_Witness ==
    /\ Done(1) /\ call[1].err = "store" /\ call[1].status = "completed"
    /\ Done(2) /\ call[2].err = "none" /\ call[2].ev = call[1].ev
    /\ call[2].ev.state = "confirmed"
    /\ call[2].ret

----------------------------------------------------------------------------
(* The front door and the result of ingest *)

\* the body is of type transfer and has all five fields, none of them empty
StructurallyValid(body) ==
    /\ body.type = "transfer"
    /\ \A f \in Fields : f \in body.present /\ body.ev[f] # EmptyField(f)

Arrived(r) == request[r].pc # "none"

Settled(r) == request[r].pc = "settled"

\* C13 as stated: when handleDeposit met a failure of the store while it
\* processed an accepted webhook, the request is answered with the fallback
\* failure response.
C13_FailureSurfaced ==
    \A r \in Calls :
        (Settled(r) /\ call[r].err = "store") => request[r].status = FallbackStatus

\* C13 amended: a failure of the store, or any other error inside handleDeposit,
\* never reaches the response of an accepted webhook: the request was answered
\* 200 before handleDeposit started and that response stands, the catch block of
\* handleDeposit turns the failure into the result false, and the detached task
\* ends in its try branch; the fallback failure response is never sent.
C13_FailureNotSurfaced ==
    \A r \in Calls :
        /\ request[r].status # FallbackStatus
        /\ call[r].err # "none" =>
              /\ request[r].status = 200
              /\ call[r].pc = "done" /\ ~call[r].ret
              /\ Settled(r) => request[r].log = "processed"

\* the task of an accepted request settled after its handleDeposit had failed on
\* the store with its audit row written
C13_Witness ==
    \E r \in Calls :
        /\ Settled(r) /\ call[r].err = "store" /\ call[r].bitgo_wallet_id # 0
        /\ request[r].status = 200 /\ request[r].log = "processed"

\* a response once sent stays, and handleDeposit starts only for a request that
\* has been answered 200
C14_Step ==
    \A r \in Calls :
        /\ request[r].status # 0 => request'[r].status = request[r].status
        /\ (call[r].pc = "idle" /\ call'[r].pc # "idle") => request[r].status = 200
        /\ request'[r].invoked # request[r].invoked =>
               call[r].pc = "idle" /\ call'[r].pc # "idle"

\* C14: The front door acknowledges before and independently of ingestion. A
\* structurally valid webhook is answered 200 before handleDeposit starts,
\* handleDeposit is invoked exactly once for it, and the response is 200 whatever
\* the outcome of the ingestion.
C14_AcknowledgedFirst ==
    /\ [][C14_Step]_vars
    /\ [](\A r \in Calls :
            (Arrived(r) /\ StructurallyValid(request[r].body)) =>
               /\ request[r].status = 200
               /\ request[r].invoked = IF request[r].pc = "queued" THEN 0 ELSE 1
               /\ Begun(r) <=> request[r].invoked = 1)

\* one accepted request ended in a credit and another in a store error
C14_Witness ==
    \E r, q \in Calls :
        /\ Settled(r) /\ Credited(r) /\ call[r].ret
        /\ request[r].status = 200 /\ request[r].invoked = 1
        /\ Settled(q) /\ call[q].err = "store"
        /\ request[q].status = 200 /\ request[q].invoked = 1

\* the arrival of a request that is not structurally valid changes neither the
\* store nor any handleDeposit call
C15_Step ==
    \A r \in Calls :
        (request'[r] # request[r] /\ ~StructurallyValid(request'[r].body))
        => UNCHANGED <<tables, nextId, call>>

\* C15: Front door structural rejection. A webhook whose type is not "transfer"
\* or in which one of hash, coin, state, receiver, valueString is missing or
\* empty is answered 400, handleDeposit is never invoked for it and the store is
\* unchanged.
C15_StructuralRejection ==
    /\ [][C15_Step]_vars
    /\ [](\A r \in Calls :
            (Arrived(r) /\ ~StructurallyValid(request[r].body)) =>
               /\ request[r].status = 400
               /\ request[r].invoked = 0
               /\ call[r].pc = "idle")

\* a transfer without its valueString was answered 400 after a deposit of
\* another request had been stored
C15_Witness ==
    \E r \in Calls :
        /\ request[r].status = 400
        /\ request[r].body.type = "transfer"
        /\ request[r].body.present = Fields \ {"valueString"}
        /\ call[r].pc = "idle"
        /\ deposits # {}

\* C16: ingest never throws. For every accepted event and every behaviour of the
\* store, handleDeposit resolves to a boolean and is never rejected, and the
\* catch branch of the detached task of the front door is never taken.
C16_NeverRejects ==
    \A r \in Calls :
        /\ call[r].pc # "rejected"
        /\ Done(r) => call[r].ret \in BOOLEAN
        /\ request[r].log # "failed"
        /\ Settled(r) => Done(r) /\ request[r].log = "processed"

\* the tasks of two deliveries of one event settled, one after a credit and the
\* other after the violation of the unique constraint
C16_Witness ==
    \E r, q \in Calls :
        /\ Settled(r) /\ call[r].err = "unique" /\ ~call[r].ret
        /\ Settled(q) /\ call[q].ret
        /\ request[r].body = request[q].body

\* C17: The result of ingest reports crediting. handleDeposit returns true
\* exactly when the call incremented a BalanceRecord; a call that stores a
\* deposit of status pending or failed returns false.
C17_ResultReportsCredit ==
    \A p \in Calls : Done(p) => (call[p].ret <=> Credited(p))

----------------------------------------------------------------------------
(* Address provisioning *)

AddressesOf(userId) == {r \in user_addresses : r.user_id = userId}

\* the coins whose request of run n was answered with an address
SucceededCoins(n) ==
    {c \in DOMAIN run[n].tasks : run[n].tasks[c] = NewAddress(n, c)}

\* the only run for its user, which held no address when it started, has ended
\* on a healthy store with at least one request answered with an address
SoleRun(n) ==
    /\ Ended(n) /\ run[n].err = "none"
    /\ run[n].fresh
    /\ SucceededCoins(n) # {}
    /\ \A m \in Runs \ {n} : run[m].userId # run[n].userId

\* C18: Provisioning partial failure. When generateUserAddresses runs for a user
\* without AddressRecords, k of the n requests succeed (0 < k <= n) and the
\* store is healthy, exactly the k successful (currency, address) pairs are the
\* AddressRecords of the user, the currencies that failed have none, and the call
\* resolves without an error.
C18_PartialFailure ==
    \A n \in Runs :
        SoleRun(n) =>
           /\ run[n].pc = "done"
           /\ AddressesOf(run[n].userId) =
                 {[user_id |-> run[n].userId, crypto |-> toUpperCase(c),
                   address |-> run[n].tasks[c]] : c \in SucceededCoins(n)}
           /\ \A c \in DOMAIN run[n].tasks \ SucceededCoins(n) :
                 ~\E r \in AddressesOf(run[n].userId) : r.crypto = toUpperCase(c)

\* a run for the new user ended with one of its two requests failed and the
\* other pair stored
C18_Witness ==
    \E n \in Runs :
        /\ SoleRun(n) /\ run[n].userId = NewUser
        /\ Cardinality(DOMAIN run[n].tasks) = 2
        /\ \E c \in DOMAIN run[n].tasks : run[n].tasks[c] = Null
        /\ Cardinality(AddressesOf(NewUser)) = 1

\* C19: At most one address per (user, currency). In every state of the store
\* that generateUserAddresses calls for one user reach, sequential or
\* concurrent, there is at most one AddressRecord for each (userId, currency).
C19_OnePerUserCurrency ==
    \A r1, r2 \in user_addresses :
        (r1.user_id = r2.user_id /\ r1.crypto = r2.crypto) => r1 = r2

\* two runs for the new user whose transactions were open together both ended
\* on a healthy store with an address for tbtc4
C19_Witness ==
    \E n, m \in Runs :
        /\ n # m /\ run[n].userId = NewUser /\ run[m].userId = NewUser
        /\ Ended(n) /\ Ended(m) /\ run[n].err = "none" /\ run[m].err = "none"
        /\ "tbtc4" \in SucceededCoins(n) \cap SucceededCoins(m)
        /\ run[m].overlapped
        /\ Cardinality({r \in AddressesOf(NewUser) : r.crypto = "TBTC4"}) = 1

\* every stored AddressRecord is still stored, and no row of its user and
\* currency holds another address
C20_Step ==
    \A r \in user_addresses :
        /\ r \in user_addresses'
        /\ \A r2 \in user_addresses' :
              (r2.user_id = r.user_id /\ r2.crypto = r.crypto) => r2.address = r.address

\* C20: AddressRecords are never updated. Once an AddressRecord of (userId,
\* currency) is committed its address stays the same in every later state, also
\* after a repeated generateUserAddresses run in which the provider returned
\* another address for the currency.
C20_NeverUpdated == [][C20_Step]_vars

\* a run for the new user, started when the user held addresses, ended on a
\* healthy store with an address for tsol that is not the stored one
C20_Witness ==
    \E n \in Runs :
        /\ run[n].userId = NewUser /\ ~run[n].fresh
        /\ Ended(n) /\ run[n].err = "none"
        /\ "tsol" \in SucceededCoins(n)
        /\ \E r \in AddressesOf(NewUser) :
              r.crypto = "TSOL" /\ r.address # run[n].tasks["tsol"]

\* the audit rows of the pairs of run n in the table
StoredAudit(n) ==
    {a \in bitgo_wallet :
        /\ a.event_type = "address_generation"
        /\ \E c \in DOMAIN run[n].tasks : a.payload.address = NewAddress(n, c)}

\* the AddressRecords that hold an address of run n
StoredAddresses(n) ==
    {r \in user_addresses : \E c \in DOMAIN run[n].tasks : r.address = NewAddress(n, c)}

\* every successful pair of run n has its audit row in the table, and its
\* AddressRecord unless the key held a row
AllStored(n) ==
    \A k \in 1..Len(run[n].successfulAddresses) :
        LET pair == run[n].successfulAddresses[k]
        IN  /\ \E a \in StoredAudit(n) :
                  a.payload = [userId |-> run[n].userId, coin |-> pair.coin,
                               address |-> pair.address]
            /\ \E r \in user_addresses :
                  r.user_id = run[n].userId /\ r.crypto = toUpperCase(pair.coin)

\* C21: Provisioning persistence is all-or-nothing. The AddressRecords and
\* audit rows of all successful pairs of a generateUserAddresses run are
\* committed together or not at all: a store error during persistence leaves no
\* AddressRecord and no audit row of that run, the error is logged and none is
\* raised to the caller.
C21_AllOrNothing ==
    \A n \in Runs :
        /\ (StoredAudit(n) # {} \/ StoredAddresses(n) # {}) =>
              Ended(n) /\ run[n].err = "none" /\ AllStored(n)
        /\ run[n].err = "store" =>
              /\ run[n].pc = "done"
              /\ StoredAudit(n) = {} /\ StoredAddresses(n) = {}

\* one run failed in the store after the statements of its first pair, a second
\* run stored both of its pairs
C21_Witness ==
    \E n, m \in Runs :
        /\ Ended(n) /\ run[n].err = "store"
        /\ Len(run[n].successfulAddresses) = 2 /\ run[n].i = 2
        /\ Ended(m) /\ run[m].err = "none"
        /\ Len(run[m].successfulAddresses) = 2
        /\ Cardinality(StoredAudit(m)) = 2

\* every request of run n has settled
AllRequestsSettled(n) == \A c \in DOMAIN run[n].tasks : run[n].tasks[c] # Pending

\* run n has sent a statement to the store
TouchedStore(n) ==
    \/ InTx(n) \/ run[n].i > 0
    \/ run[n].wAddr # {} \/ run[n].wAudit # {}
    \/ StoredAudit(n) # {} \/ StoredAddresses(n) # {}

\* the requests of a run are all dispatched when it starts, and a step settles
\* one request and leaves the other requests of the run as they are
C24_Step ==
    \A n \in Runs :
        /\ (run[n].pc = "idle" /\ run'[n].pc # "idle") =>
              \A c \in DOMAIN run'[n].tasks : run'[n].tasks[c] = Pending
        /\ run[n].pc # "idle" =>
              /\ DOMAIN run'[n].tasks = DOMAIN run[n].tasks
              /\ \A c \in DOMAIN run[n].tasks :
                    run'[n].tasks[c] # run[n].tasks[c] =>
                       /\ run[n].tasks[c] = Pending
                       /\ \A d \in DOMAIN run[n].tasks \ {c} :
                             run'[n].tasks[d] = run[n].tasks[d]

\* C24: Provider first, then store. In generateUserAddresses no store write
\* happens before every dispatched provider request has settled; the persistence
\* transaction starts only after all requests settled, and a failure of one
\* request neither cancels nor delays the dispatch of its siblings.
C24_ProviderFirst ==
    /\ [][C24_Step]_vars
    /\ [](\A n \in Runs : TouchedStore(n) => AllRequestsSettled(n))

\* the transaction of a run is open after one of its two requests failed and
\* the other was answered with an address
C24_Witness ==
    \E n \in Runs :
        /\ InTx(n) /\ run[n].wAddr # {}
        /\ \E c \in DOMAIN run[n].tasks : run[n].tasks[c] = Null
        /\ \E c \in DOMAIN run[n].tasks : run[n].tasks[c] = NewAddress(n, c)

\* run n has started and none of its requests was answered with an address
NoSuccess(n) ==
    /\ run[n].pc # "idle"
    /\ \A c \in DOMAIN run[n].tasks : run[n].tasks[c] \in {Undefined, Null}

\* a run without a successful pair only returns, and the store stays as it is
C25_Step ==
    \A n \in Runs :
        (NoSuccess(n) /\ run'[n] # run[n]) =>
           /\ run'[n].pc = "done"
           /\ UNCHANGED <<tables, nextId>>

\* C25: No success, no store access. When every dispatched provider request of
\* a generateUserAddresses run fails (or returns a response without an address),
\* or no currency has a wallet identifier, the call returns without opening a
\* transaction and without any store read or write.
C25_NoStoreAccess ==
    /\ [][C25_Step]_vars
    /\ [](\A n \in Runs :
             NoSuccess(n) => ~TouchedStore(n) /\ run[n].err = "none")

\* a run ended after one of its two requests failed and the other was answered
\* without an address
C25_Witness ==
    \E n \in Runs :
        /\ Ended(n) /\ NoSuccess(n)
        /\ \E c \in DOMAIN run[n].tasks : run[n].tasks[c] = Null
        /\ \E c \in DOMAIN run[n].tasks : run[n].tasks[c] = Undefined

\* the entries of wallets with a wallet identifier
Configured == {k \in 1..Len(wallets) : Present(wallets[k].walletId)}

\* a settled request stays as it settled
C26_Step ==
    \A n \in Runs :
        \A c \in DOMAIN run[n].tasks :
            run[n].tasks[c] # Pending =>
               /\ c \in DOMAIN run'[n].tasks
               /\ run'[n].tasks[c] = run[n].tasks[c]

Answered(r) == registration[r].pc \in {"closed", "rejected"}

\* the row of users that request r inserted is committed
Inserted(r) == \E u \in users : u.id = NewUserId(r)

\* C22: Provision is triggered once per new user. UserRegister invokes
\* generateUserAddresses exactly once for each request that inserts a new user,
\* and never for a request that creates no user (missing fields, invalid date,
\* or an already existing email or phone answered 409).
C22_OncePerNewUser ==
    \A r \in Runs :
        /\ registration[r].provisioned <= 1
        /\ registration[r].provisioned = 1 => Inserted(r)
        /\ Answered(r) =>
              registration[r].provisioned = IF Inserted(r) THEN 1 ELSE 0

\* the call of generateUserAddresses for a created user and the 201 response
\* are one step, a response that was sent stays, and no row of users goes
C23_Step ==
    /\ \A r \in Runs :
          /\ ( /\ registration'[r].provisioned > registration[r].provisioned
               /\ registration[r].newUser # NoId ) =>
                /\ registration'[r].status = 201
                /\ registration'[r].pc = "closed"
                /\ run'[r].pc = "waiting"
          /\ registration[r].status # 0 =>
                registration'[r].status = registration[r].status
    /\ \A u \in users : u \in users'

\* C23: Provisioning is fire-and-forget for registration. UserRegister sends
\* its 201 response without waiting for generateUserAddresses to settle, so the
\* response is sent even if the provider requests never complete, and a failure
\* inside provisioning never changes the registration response or undoes the
\* created user.
C23_FireAndForget ==
    /\ [][C23_Step]_vars
    /\ [](\A r \in Runs :
             (registration[r].newUser # NoId /\ run[r].pc # "idle") =>
                registration[r].status = 201 /\ Inserted(r))

\* a registration was answered 201, its provisioning run failed in the store
\* and the user is stored
C23_Witness ==
    \E r \in Runs :
        /\ registration[r].status = 201
        /\ run[r].userId = NewUserId(r)
        /\ Ended(r) /\ run[r].err = "store"
        /\ Inserted(r)

\* x <= y for decimals
Leq(x, y) == x[1] * y[2] <= y[1] * x[2]

\* every balance stays or grows, and one that is created or grows does so in
\* the commit that adds a completed DepositRecord of its user and currency
C27_Step ==
    /\ DOMAIN user_balances \subseteq DOMAIN user_balances'
    /\ \A key \in DOMAIN user_balances' :
          /\ Leq(Balance(key), user_balances'[key])
          /\ (key \notin DOMAIN user_balances \/ user_balances'[key] # user_balances[key])
                => \E d \in deposits' \ deposits :
                      /\ d.user_id = key[1] /\ d.crypto = key[2]
                      /\ d.status = "completed"

\* C27: Balances only grow. Over any sequence or interleaving of handleDeposit
\* and generateUserAddresses calls, every BalanceRecord balance is non-negative
\* and never decreases from one committed state to the next, and a balance
\* changes only in a transaction that also inserts a completed DepositRecord for
\* the same (user, currency).
C27_BalancesOnlyGrow ==
    /\ [][C27_Step]_vars
    /\ [](\A key \in DOMAIN user_balances : Leq(Zero, user_balances[key]))

\* the provisioning run stored the address of the new user, a confirmed deposit
\* to it was credited and a pending deposit was stored
C27_Witness ==
    /\ Ended(1) /\ StoredAddresses(1) # {}
    /\ Positive(Balance(<<NewUser, "TBTC4">>))
    /\ \E d \in deposits : d.status = "pending"

\* the AddressRecords of the receiver of call p for the currency of its coin
OwnersOf(p) ==
    {r \in user_addresses :
        r.address = call[p].ev.receiver /\ r.crypto = dbCoinSymbol(call[p].ev.coin)}

\* the commit of a call that credits changes the balance of the owner of the
\* receiver for the resolved currency and no other, and adds the DepositRecord
\* of the hash with that user and currency
C28_Step ==
    \A p \in Calls :
        (call[p].pc = "commit" /\ Credited(p)') =>
           \E o \in OwnersOf(p) :
              LET key == <<o.user_id, o.crypto>>
              IN  /\ key \in DOMAIN user_balances'
                  /\ user_balances'[key] = Plus(Balance(key), call[p].amount)
                  /\ \A k \in DOMAIN user_balances' \ {key} :
                        k \in DOMAIN user_balances /\ user_balances'[k] = user_balances[k]
                  /\ deposits' \ deposits # {}
                  /\ \A d \in deposits' \ deposits :
                        /\ d.blockchain_tx_hash = call[p].ev.hash
                        /\ d.user_id = o.user_id /\ d.crypto = o.crypto

\* C28: Credit attribution. A credited event changes only the BalanceRecord of
\* (owner of the receiver address for the resolved currency, resolved currency),
\* and the DepositRecord carries that same user and currency; no BalanceRecord
\* of another user or of another currency of the same user is modified by that
\* call.
C28_CreditAttribution == [][C28_Step]_vars

\* a deposit to the address of user 2 was credited, then a deposit to the tsol
\* address of user 1, and the balance of user 2 is as the first credit left it
C28_Witness ==
    /\ Credited(1) /\ call[1].user_id = 2
    /\ Credited(2) /\ call[2].user_id = 1 /\ call[2].sym = "TSOL"
    /\ Balance(<<2, "TBTC4">>) = call[1].amount
    /\ Balance(<<1, "TSOL">>) = call[2].amount

\* C29: Amount conversion. For each registry currency (tbtc4 and tdoge with
\* divisor 100000000, tsol with 1000000000, tada with 1000000) and every
\* positive integer valueString, the stored amount times the currency's divisor
\* equals the raw integer value (e.g. 150000000 for tbtc4 gives 1.5), and the
\* balance increment equals the stored DepositRecord amount.
C29_AmountConversion ==
    \A p \in Calls :
        call[p].pc = "converted" =>
           /\ call[p].amount.den = VALUE_DIVISORS[COIN_MAPPINGS[call[p].ev.coin]]
           /\ call[p].amount.num = WideOf(call[p].ev.valueString)

\* the audit rows of call p in the table that hold its event
AuditRows(p) ==
    {a \in bitgo_wallet \cap call[p].wAudit :
        a.event_type = "crypto_deposit" /\ a.payload = call[p].ev}

\* the event of call p passed the checks that come before the audit insert: its
\* coin is in the registry, its receiver is tracked and its hash had no
\* DepositRecord
PassedChecks(p) == Tracked(call[p].ev) /\ ~call[p].dup

\* C30 as stated: every event that reached handleDeposit and met no failure of
\* the store has left an audit row with its raw payload, whatever the outcome.
C30_AuditAlways ==
    \A p \in Calls : (Done(p) /\ call[p].err = "none") => AuditRows(p) # {}

\* C30: Audit rows are kept independently of the business outcome. Every webhook
\* event that reaches handleDeposit with a registry coin, a tracked receiver
\* address and a hash without a DepositRecord, and whose transaction commits,
\* leaves one persisted audit row with its raw payload, whether the event is
\* credited, stored as pending or failed, or has an invalid amount; a duplicate,
\* an event for an unknown coin or for an untracked address leaves none, and no
\* audit row is ever removed.
C30_AuditAfterChecks ==
    /\ [][\A a \in bitgo_wallet : a \in bitgo_wallet']_vars
    /\ [](\A p \in Calls :
             (Done(p) /\ call[p].err = "none") =>
                IF PassedChecks(p)
                THEN Cardinality(AuditRows(p)) = 1
                ELSE call[p].wAudit = {}
                     /\ ~\E a \in bitgo_wallet :
                           a.bitgo_wallet_id = call[p].bitgo_wallet_id)

\* a credited deposit and a deposit with an invalid amount have each left their
\* audit row, the second without a DepositRecord
C30_Witness ==
    /\ Credited(1) /\ AuditRows(1) # {}
    /\ Done(2) /\ call[2].err = "none" /\ PassedChecks(2)
    /\ call[2].ev.valueString \in BadValues
    /\ AuditRows(2) # {} /\ RowsOf(2) = {}

----------------------------------------------------------------------------
(* The last claims *)

\* every stored DepositRecord stays as it is, and no row is added for its hash
C31_Step ==
    \A d \in deposits :
        /\ d \in deposits'
        /\ \A d2 \in deposits' :
              d2.blockchain_tx_hash = d.blockchain_tx_hash => d2 = d

\* C31: A stored deposit's status is final. No sequence of handleDeposit calls
\* changes the status of an existing DepositRecord, so when a hash is first
\* ingested with state pending or unconfirmed, a later event with the same hash
\* and state confirmed is treated as a duplicate, returns false and never
\* credits the balance.
C31_StatusFinal ==
    /\ [][C31_Step]_vars
    /\ [](\A p \in Calls :
             ( /\ Done(p) /\ call[p].dup /\ call[p].err = "none"
               /\ call[p].ev.state = "confirmed"
               /\ \E d \in DepositsOf(call[p].ev.hash) : d.status = "pending" ) =>
                /\ ~call[p].ret
                /\ WroteNothing(p)
                /\ \A d \in DepositsOf(call[p].ev.hash) : d.status = "pending")

\* a pending deposit was stored, then the confirmed event of the same hash,
\* coin, receiver and value was handled: the deposit is pending and no balance
\* exists
C31_Witness ==
    /\ Done(1) /\ call[1].ev.state = "pending" /\ RowsOf(1) # {}
    /\ Done(2) /\ call[2].err = "none"
    /\ call[2].ev = [call[1].ev EXCEPT !.state = "confirmed"]
    /\ \A d \in DepositsOf(call[1].ev.hash) : d.status = "pending"
    /\ user_balances = <<>>

\* the AddressRecords of the new user that hold the receiver of call p under
\* the upper-cased coin code of its event
ProvisionedFor(p) ==
    {r \in user_addresses :
        /\ r.user_id = NewUser
        /\ r.address = call[p].ev.receiver
        /\ r.crypto = toUpperCase(call[p].ev.coin)}

\* the address query of a call whose receiver was provisioned for its coin
\* finds the user
C32_Step ==
    \A p \in Calls :
        ( /\ call[p].pc = "selAddr" /\ call'[p].pc # "selAddr"
          /\ call'[p].err = "none"
          /\ KnownCoin(call[p].ev)
          /\ ProvisionedFor(p) # {} ) =>
           call'[p].pc = "selDep" /\ call'[p].user_id = NewUser

\* C32: Provisioner and ingestor agree on currency symbols. For every coin code
\* c of the registry (tbtc4, tsol, tada, tdoge), the symbol under which
\* generateUserAddresses stores the address (c upper-cased) equals the registry
\* symbol handleDeposit resolves for c, so after a successful provisioning of
\* (user, c, address) a valid deposit event with coin c and that receiver
\* address resolves to that user.
C32_SymbolsAgree ==
    /\ [](\A c \in DOMAIN COIN_MAPPINGS : toUpperCase(c) = dbCoinSymbol(c))
    /\ [][C32_Step]_vars
    /\ [](\A p \in Calls : Credited(p) =>
             \E r \in user_addresses :
                /\ r.user_id = call[p].user_id
                /\ r.address = call[p].ev.receiver
                /\ r.crypto = dbCoinSymbol(call[p].ev.coin))

\* the run stored the address of the new user for a coin, and a deposit of
\* that coin to that address was credited to the new user
C32_Witness ==
    \E p \in Calls :
        /\ Ended(1) /\ run[1].err = "none"
        /\ call[p].ev.coin \in SucceededCoins(1)
        /\ call[p].ev.receiver = NewAddress(1, call[p].ev.coin)
        /\ Credited(p) /\ call[p].user_id = NewUser
        /\ Positive(Balance(<<NewUser, toUpperCase(call[p].ev.coin)>>))

\* the audit rows with the id that DepositRecord d references
ReferencedBy(d) == {a \in bitgo_wallet : a.bitgo_wallet_id = d.bitgo_uid}

\* a DepositRecord becomes visible together with the audit row it references,
\* both written by one transaction for the event of that call
C33_Step ==
    \A d \in deposits' \ deposits :
        \E p \in Calls : \E a \in bitgo_wallet' \ bitgo_wallet :
            /\ call[p].pc = "commit" /\ call'[p].pc = "done"
            /\ d \in call[p].wDep /\ a \in call[p].wAudit
            /\ a.bitgo_wallet_id = d.bitgo_uid
            /\ a.event_type = "crypto_deposit"
            /\ a.payload = call[p].ev
            /\ a.payload.hash = d.blockchain_tx_hash

\* C33: Every DepositRecord's bitgo_uid is the id of an existing audit row of
\* type crypto_deposit that was inserted in the same transaction and holds the
\* payload of that deposit's event; no two DepositRecords share an audit row.
C33_DepositHasAudit ==
    /\ [][C33_Step]_vars
    /\ [](\A d \in deposits :
             /\ Cardinality(ReferencedBy(d)) = 1
             /\ \A a \in ReferencedBy(d) :
                   /\ a.event_type = "crypto_deposit"
                   /\ a.payload.hash = d.blockchain_tx_hash
                   /\ a.payload.receiver \in
                        {r.address : r \in {x \in user_addresses :
                                               x.user_id = d.user_id}})
    /\ [](\A d1, d2 \in deposits : d1.bitgo_uid = d2.bitgo_uid => d1 = d2)

\* two calls stored a DepositRecord each, with an audit row each
C33_Witness ==
    /\ Done(1) /\ Done(2)
    /\ RowsOf(1) # {} /\ RowsOf(2) # {} /\ RowsOf(1) # RowsOf(2)
    /\ \A d \in deposits : ReferencedBy(d) # {}

\* run n has sent a request to the provider
Requested(n) ==
    \/ run[n].tasks # <<>>
    \/ \E k \in 1..Len(run[n].issued) : run[n].issued[k] > 0

\* without the token, a run that starts is over in the same step and the
\* store is as it was
C34_Step ==
    ~Present(accessToken) =>
        /\ UNCHANGED <<tables, nextId>>
        /\ \A n \in Runs :
              run[n].pc = "idle" /\ run'[n].pc # "idle" => run'[n].pc = "done"

\* C34: When no access token is configured, every call of
\* generateUserAddresses returns without issuing any provider request and
\* without any store access, for every userId.
C34_NoTokenNoEffect ==
    /\ [][C34_Step]_vars
    /\ [](~Present(accessToken) =>
             /\ \A n \in Runs :
                   /\ run[n].pc \in {"idle", "done"}
                   /\ run[n].err = "none"
                   /\ ~Requested(n)
                   /\ ~TouchedStore(n)
             /\ user_addresses = ProvisionedAddresses
             /\ bitgo_wallet = {})

\* without the token, a run for a stored user and a run for the new user have
\* both returned
C34_Witness ==
    /\ ~Present(accessToken)
    /\ Ended(1) /\ Ended(2)
    /\ run[1].userId \in {1, 2} /\ run[2].userId = NewUser

----------------------------------------------------------------------------
(* The authentication middleware: JWT.authenticateToken (utils/jwt.js).    *)
(* In this specification request[q] is a request passing the middleware.   *)

\* values of JavaScript that are compared with !==: a string, a number, or
\* undefined
Str(s) == [type |-> "string", value |-> s]
Num(n) == [type |-> "number", value |-> n]
JsUndefined == [type |-> "undefined", value |-> Undefined]

\* a !== b: the types differ or the values do
StrictNotEqual(a, b) == a.type # b.type \/ a.value # b.value

\* the tokens presented: signed for user "3", for user "4", for a user whose
\* id is the number 3, signed without a userId, expired, and with a signature
\* of another secret
TokenNames == {"t-s3", "t-s4", "t-n3", "t-noid", "t-expired", "t-forged"}

\* no payload: the verification threw
NoPayload == [userId |-> JsUndefined]

\* jwt.verify(token, JWT_SECRET): the decoded payload, or the name of the
\* error thrown; a string that is no token is a JsonWebTokenError
jwtVerify(token) ==
    CASE token = "t-s3"      -> [name |-> "ok", decoded |-> [userId |-> Str("3")]]
      [] token = "t-s4"      -> [name |-> "ok", decoded |-> [userId |-> Str("4")]]
      [] token = "t-n3"      -> [name |-> "ok", decoded |-> [userId |-> Num(3)]]
      [] token = "t-noid"    -> [name |-> "ok", decoded |-> [userId |-> JsUndefined]]
      [] token = "t-expired" -> [name |-> "TokenExpiredError", decoded |-> NoPayload]
      [] OTHER               -> [name |-> "JsonWebTokenError", decoded |-> NoPayload]

\* verifyToken: the decoded payload, or the message of the Error it throws
verifyToken(token) ==
    LET v == jwtVerify(token)
    IN  IF v.name = "ok" THEN [thrown |-> "none", decoded |-> v.decoded]
        ELSE IF v.name = "TokenExpiredError"
             THEN [thrown |-> "Token has expired", decoded |-> NoPayload]
             ELSE [thrown |-> "Invalid token", decoded |-> NoPayload]

\* A header value is the sequence of its pieces, each a blank " " or a text
\* without blanks; the empty sequence is the empty string.
Header(text) == [present |-> TRUE, text |-> text]

\* req.headers['authorization'] of a request without the header
NoHeader == [present |-> FALSE, text |-> <<>>]

\* authHeader.split(' '): the texts between the blanks, empty ones included
RECURSIVE split(_)
split(s) ==
    IF s = <<>> THEN <<"">>
    ELSE LET rest == split(Tail(s))
         IN  IF Head(s) = " " THEN <<"">> \o rest
             ELSE <<Head(s) \o rest[1]>> \o Tail(rest)

\* the values of the Authorization header: none, the empty one, the scheme
\* alone, the scheme and a blank, another scheme, the scheme in lower case, a
\* token alone, two blanks, every token, a text that is no token, and a
\* token followed by another word
AuthHeaders ==
    {NoHeader}
    \cup {Header(text) : text \in
            {<<>>, <<"Bearer">>, <<"Bearer", " ">>,
             <<"Basic", " ", "t-s3">>, <<"bearer", " ", "t-s3">>, <<"t-s3">>,
             <<"Bearer", " ", " ", "t-s3">>, <<"Bearer", " ", "garbage">>,
             <<"Bearer", " ", "t-s3", " ", "x">>, <<"Bear", "er", " ", "t-s4">>}
            \cup {<<"Bearer", " ", t>> : t \in TokenNames}}

\* req.params.userId: undefined on a route without the parameter
UserIdParams == {JsUndefined, Str("3"), Str("4")}

\* a statement outside the verification throws (the logger): none does, one
\* of the outer try block does, or the one after the verification does
Unexpected == {"none", "outer", "inner"}

\* a request that has not arrived; sent holds the status codes of the
\* responses of the middleware, nexts counts its calls of next(), user holds
\* req.user once it is assigned
NoAuthRequest ==
    [pc |-> "none", authHeader |-> NoHeader, userId |-> JsUndefined,
     unexpected |-> "none", sent |-> <<>>, nexts |-> 0, user |-> {}]

InitAuth ==
    /\ user_addresses = ProvisionedAddresses
    /\ deposits = {}
    /\ user_balances = <<>>
    /\ bitgo_wallet = {}
    /\ nextId = 1
    /\ call = [p \in Calls |-> IdleCall]
    /\ request = [r \in Calls |-> NoAuthRequest]
    /\ env = ConfiguredEnv
    /\ run = [n \in Runs |-> IdleRun]
    /\ users = ExistingUsers
    /\ registration = [r \in Runs |-> NoRegistration]

\* a request reaches a route guarded by the middleware
Arrive(q, authHeader, userId, unexpected) ==
    /\ request[q].pc = "none"
    /\ request' = [request EXCEPT ![q] =
          [@ EXCEPT !.pc = "arrived", !.authHeader = authHeader,
                    !.userId = userId, !.unexpected = unexpected]]
    /\ UNCHANGED <<tables, nextId, call, provisioning, registering>>

\* the response, or the call of next(), of the handler for a request
Responds(req, code) == [req EXCEPT !.pc = "done", !.sent = Append(@, code)]

CallsNext(req, decoded) ==
    [req EXCEPT !.pc = "done", !.user = {decoded}, !.nexts = @ + 1]

\* authenticateToken without the comparison of the userId of the route
authenticateToken_AnyUser(req) ==
    IF ~req.authHeader.present \/ req.authHeader.text = <<>>
    THEN Responds(req, IF req.unexpected = "outer" THEN 500 ELSE 401)
    ELSE LET parts  == split(req.authHeader.text)
             bearer == parts[1]
             token  == IF Len(parts) >= 2 THEN parts[2] ELSE Undefined
         IN  IF req.unexpected = "outer" THEN Responds(req, 500)
             ELSE IF bearer # "Bearer" \/ ~Present(token) THEN Responds(req, 401)
             ELSE LET v == verifyToken(token)
                  IN  IF v.thrown # "none" \/ req.unexpected = "inner"
                      THEN Responds(req, 403)
                      ELSE CallsNext(req, v.decoded)

\* lines 48-100: 401 without the header or when it does not split into Bearer
\* and a token; inside the inner try the verification, then 403 when the
\* userId of the route is there and differs from the one of the token, else
\* req.user and next(); the inner catch answers 403 and the outer one 500
authenticateToken(req) ==
    IF ~req.authHeader.present \/ req.authHeader.text = <<>>
    THEN Responds(req, IF req.unexpected = "outer" THEN 500 ELSE 401)
    ELSE LET parts  == split(req.authHeader.text)
             bearer == parts[1]
             token  == IF Len(parts) >= 2 THEN parts[2] ELSE Undefined
         IN  IF req.unexpected = "outer" THEN Responds(req, 500)
             ELSE IF bearer # "Bearer" \/ ~Present(token) THEN Responds(req, 401)
             ELSE LET v == verifyToken(token)
                  IN  IF v.thrown # "none" \/ req.unexpected = "inner"
                      THEN Responds(req, 403)
                      ELSE IF /\ req.userId.type = "string"
                              /\ req.userId.value # ""
                              /\ StrictNotEqual(req.userId, v.decoded.userId)
                           THEN Responds(req, 403)
                           ELSE CallsNext(req, v.decoded)

\* the middleware runs for the request, in one piece: it awaits nothing
Invoke(q) ==
    /\ request[q].pc = "arrived"
    /\ request' = [request EXCEPT ![q] = authenticateToken(request[q])]
    /\ UNCHANGED <<tables, nextId, call, provisioning, registering>>

NextAuth ==
    \E q \in {1, 2} :
        \/ /\ NextRequest(q)
           /\ \E authHeader \in AuthHeaders : \E userId \in UserIdParams :
                 \E unexpected \in Unexpected :
                    Arrive(q, authHeader, userId, unexpected)
        \/ Invoke(q)

SpecAuth == InitAuth /\ [][NextAuth]_vars

\* the header of request q reads "Bearer <token>": the scheme, a blank and a
\* text that is not empty
BearerForm(q) ==
    /\ request[q].authHeader.present
    /\ LET parts == split(request[q].authHeader.text)
       IN  Len(parts) >= 2 /\ parts[1] = "Bearer" /\ parts[2] # ""

\* the token of the header of request q
TokenOf(q) == split(request[q].authHeader.text)[2]

\* the userId of the route is absent, or it is the userId of the token
UserIdAllowed(q) ==
    \/ request[q].userId.type = "undefined"
    \/ ~StrictNotEqual(request[q].userId, jwtVerify(TokenOf(q)).decoded.userId)

Authenticated(q) ==
    /\ BearerForm(q)
    /\ jwtVerify(TokenOf(q)).name = "ok"
    /\ UserIdAllowed(q)

\* C35: authenticateToken lets a request through only when authenticated:
\* next() is called exactly when the Authorization header has the form
\* "Bearer <token>", the token verifies, and the route's userId parameter is
\* absent or equal to the token's userId; in every other case exactly one
\* response is sent (401 for a missing or malformed header, 403 for an invalid
\* or expired token or a userId mismatch) and next() is never called.
C35_OnlyAuthenticated ==
    \A q \in Calls :
        /\ request[q].nexts + Len(request[q].sent) <= 1
        /\ request[q].nexts > 0 => Authenticated(q)
        /\ request[q].pc = "done" /\ request[q].unexpected = "none" =>
              IF Authenticated(q)
              THEN /\ request[q].nexts = 1 /\ request[q].sent = <<>>
                   /\ request[q].user = {jwtVerify(TokenOf(q)).decoded}
              ELSE /\ request[q].nexts = 0
                   /\ request[q].sent =
                         <<IF BearerForm(q) THEN 403 ELSE 401>>

\* a request with the token of the user of its route went through, and one
\* with the token of another user was answered 403
C35_Witness ==
    /\ request[1].pc = "done" /\ request[1].userId = Str("3")
    /\ request[1].nexts = 1 /\ request[1].user = {[userId |-> Str("3")]}
    /\ request[2].pc = "done" /\ request[2].userId = Str("3")
    /\ BearerForm(2) /\ jwtVerify(TokenOf(2)).name = "ok"
    /\ request[2].sent = <<403>> /\ request[2].unexpected = "none"

====
